---- MODULE Spec2Model ----
(***************************************************************************)
(* Model of the Allied Vision capture server: the request loop of          *)
(* src/server.hpp (main), the camera handle of src/include/imagecam.hpp    *)
(* (ImageCam) and the identity hasher of src/src/stringhasher.cpp.         *)
(*                                                                         *)
(* Strings are sequences of one-character strings.  A uint32_t is a pair   *)
(* <<hi, lo>> of 16-bit limbs (hi * 65536 + lo), because the identities    *)
(* the hasher produces use all 32 bits.  A long (as returned by atol) is a *)
(* record [neg, mag] with mag four 16-bit limbs, least significant first.  *)
(***************************************************************************)
EXTENDS Integers, Sequences, FiniteSets, TLC

(***************************************************************************)
(* Bounds of the model.                                                    *)
(***************************************************************************)
\* the monotonic clock is followed up to MaxTime polling intervals
MaxTime == 7
\* the same, in the runs that follow the frame callback
ShortTime == 1
\* the same, in the runs that follow the commands
CommandTime == 0
\* requests clients send in one run
MaxRequests == 2
\* the same, in the runs that follow the frame callback
MaxFrameRequests == 4
\* the same, in the runs whose frame callbacks run to completion
MaxSessionRequests == 6
\* frame arrivals the vendor SDK delivers in one run
MaxFrames == 2
\* largest number of cameras allied_list_cameras reports at startup
MaxCams == 3

(***************************************************************************)
(* Characters and strings.                                                 *)
(***************************************************************************)
DigitChars == <<"0", "1", "2", "3", "4", "5", "6", "7", "8", "9">>

IsDigit(ch) == \E i \in 1..10 : DigitChars[i] = ch

DigitVal(ch) == (CHOOSE i \in 1..10 : DigitChars[i] = ch) - 1

\* isspace() of the C locale
IsSpace(ch) == ch \in {" ", "\t", "\n", "\r"}

\* tolower() on the letters the model's arguments use
tolower(ch) ==
    CASE ch = "T" -> "t"
      [] ch = "R" -> "r"
      [] ch = "U" -> "u"
      [] ch = "E" -> "e"
      [] ch = "F" -> "f"
      [] ch = "A" -> "a"
      [] ch = "L" -> "l"
      [] ch = "S" -> "s"
      [] OTHER -> ch

\* character code (ASCII) of the characters camera identifier strings use
Ord(ch) ==
    CASE IsDigit(ch) -> 48 + DigitVal(ch)
      [] ch = "A" -> 65
      [] ch = "B" -> 66
      [] ch = "C" -> 67
      [] ch = "D" -> 68
      [] ch = "E" -> 69
      [] ch = "Q" -> 81
      [] ch = "V" -> 86
      [] ch = "_" -> 95
      [] ch = "-" -> 45
      [] OTHER -> 63

(***************************************************************************)
(* 16-bit and 32-bit arithmetic.                                           *)
(***************************************************************************)
W16 == 65536

RECURSIVE Xor(_, _, _)
\* bitwise exclusive or of two naturals below 2^bits
Xor(a, b, bits) ==
    IF bits = 0 THEN 0
    ELSE ((a + b) % 2) + 2 * Xor(a \div 2, b \div 2, bits - 1)

\* a uint32_t plus a small natural, modulo 2^32
U32Add(h, n) ==
    LET lo == h[2] + n
        hi == h[1] + (lo \div W16)
    IN  <<hi % W16, lo % W16>>

\* (h >> 11) | (h << (32 - 11))
RotR11(h) ==
    << (h[1] \div 2048) + (h[2] % 2048) * 32,
       (h[1] % 2048) * 32 + (h[2] \div 2048) >>

\* h ^ (h >> 16)
XorShift16(h) == << h[1], Xor(h[2], h[1], 16) >>

\* h ^ (h >> 8)
XorShift8(h) ==
    << Xor(h[1], h[1] \div 256, 16),
       Xor(h[2], (h[1] % 256) * 256 + (h[2] \div 256), 16) >>

\* order of uint32_t values: the iteration order of std::map<uint32_t, ...>
U32Less(a, b) == a[1] < b[1] \/ (a[1] = b[1] /\ a[2] < b[2])

(***************************************************************************)
(* atol: optional white space, optional sign, then decimal digits up to    *)
(* the first character that is not a digit.  No digits parse as 0.         *)
(***************************************************************************)
ZeroMag == <<0, 0, 0, 0>>

\* mag * 10 + d on four 16-bit limbs
MulAdd10(mag, d) ==
    LET t1 == mag[1] * 10 + d
        t2 == mag[2] * 10 + (t1 \div W16)
        t3 == mag[3] * 10 + (t2 \div W16)
        t4 == mag[4] * 10 + (t3 \div W16)
    IN  << t1 % W16, t2 % W16, t3 % W16, t4 % W16 >>

RECURSIVE SkipSpace(_)
SkipSpace(s) ==
    IF s # <<>> /\ IsSpace(Head(s)) THEN SkipSpace(Tail(s)) ELSE s

RECURSIVE AccDigits(_, _)
AccDigits(s, mag) ==
    IF s # <<>> /\ IsDigit(Head(s))
    THEN AccDigits(Tail(s), MulAdd10(mag, DigitVal(Head(s))))
    ELSE mag

atol(str) ==
    LET Signed(s, mag) ==
            [neg |-> s # <<>> /\ Head(s) = "-" /\ mag # ZeroMag, mag |-> mag]
        Parse(s) ==
            Signed(s, AccDigits(IF s # <<>> /\ Head(s) \in {"-", "+"}
                                THEN Tail(s) ELSE s, ZeroMag))
    IN  Parse(SkipSpace(str))

\* the conversion long -> uint32_t: the low 32 bits, two's complement
ToUint32(v) ==
    LET lo == v.mag[1]
        hi == v.mag[2]
    IN  IF ~v.neg THEN <<hi, lo>>
        ELSE IF lo = 0 THEN << (W16 - hi) % W16, 0 >>
        ELSE << W16 - 1 - hi, W16 - lo >>

\* the conversion long -> int: the low 32 bits, read as a signed number
ToInt32(v) ==
    LET Signed(u) ==
            IF u[1] >= 32768 THEN (u[1] - W16) * W16 + u[2] ELSE u[1] * W16 + u[2]
    IN  Signed(ToUint32(v))

\* a long that fits 31 bits, as an integer (the model's arguments to
\* integer-valued commands stay in that range)
LongVal(v) ==
    LET m == (v.mag[2] % 32768) * W16 + v.mag[1]
    IN  IF v.neg THEN 0 - m ELSE m

(***************************************************************************)
(* std::to_string                                                          *)
(***************************************************************************)
RECURSIVE NatToString(_)
NatToString(n) ==
    IF n < 10 THEN << DigitChars[n + 1] >>
    ELSE Append(NatToString(n \div 10), DigitChars[(n % 10) + 1])

\* std::to_string of a signed integer
to_string(n) == IF n < 0 THEN <<"-">> \o NatToString(0 - n) ELSE NatToString(n)

RECURSIVE U32ToString(_)
\* std::to_string of a uint32_t
U32ToString(h) ==
    LET qh == h[1] \div 10
        t  == (h[1] % 10) * W16 + h[2]
        ql == t \div 10
        r  == t % 10
    IN  IF h[1] = 0 /\ h[2] < 10 THEN << DigitChars[h[2] + 1] >>
        ELSE Append(U32ToString(<<qh, ql>>), DigitChars[r + 1])

(***************************************************************************)
(* Result codes.  The numeric values are set by the vendor SDK's header,   *)
(* which is not part of the repository; the model keeps the names.         *)
(***************************************************************************)
VmbErrorSuccess      == "VmbErrorSuccess"
VmbErrorNotFound     == "VmbErrorNotFound"
VmbErrorNoData       == "VmbErrorNoData"
VmbErrorWrongType    == "VmbErrorWrongType"
VmbErrorBadParameter == "VmbErrorBadParameter"

\* codes a failing vendor call returns
VendorFailures == {"VmbErrorTimeout", "VmbErrorInvalidValue"}

\* codes a vendor call returns
VendorCodes == {VmbErrorSuccess} \cup VendorFailures

(***************************************************************************)
(* StringHasher                                                            *)
(***************************************************************************)
\* 0x1F351F35
HashSeed == <<7989, 7989>>

\* one step of the loop of get_hash: rotate, then add the table entry that
\* the character and the low byte of h select
HashStep(tbl, h, ch) ==
    U32Add(RotR11(h), tbl[Xor(Ord(ch), h[2] % 256, 8) + 1])

RECURSIVE HashLoop(_, _, _)
HashLoop(tbl, h, str) ==
    IF str = <<>> THEN h
    ELSE HashLoop(tbl, HashStep(tbl, h, Head(str)), Tail(str))

\* StringHasher::get_hash
get_hash(tbl, str) == XorShift8(XorShift16(HashLoop(tbl, HashSeed, str)))

\* a hasher whose calls rotate its table, which the code does not do
hasher_get_hash_stirring(tbl, str) ==
    [ hash  |-> get_hash(tbl, str),
      state |-> [i \in 1..256 |-> tbl[(i % 256) + 1]] ]

\* hasher.get_hash(caminfo.idstr): the hash returned and the table the
\* hasher holds after the call (get_hash reads state and writes no member)
hasher_get_hash(tbl, str) ==
    [ hash  |-> get_hash(tbl, str),
      state |-> tbl ]

\* Substitution tables StringHasher::StringHasher may fill in: each entry is
\* rand() % 0x100.  Two of the 256^256 tables: one with varied entries, one
\* with all entries equal.
VariedTable == [i \in 1..256 |-> ((i - 1) * 73 + 41) % 256]

FlatTable == [i \in 1..256 |-> 0]

Tables == {VariedTable, FlatTable}

\* The table the constructor fills in when rand() is the one of the GNU C
\* library, which main never seeds: the first 256 values of rand() % 0x100.
GlibcTable ==
    <<103, 198, 105, 115,  81, 255,  74, 236,  41, 205, 186, 171, 242, 251, 227,  70,
       124, 194,  84, 248,  27, 232, 231, 141, 118,  90,  46,  99,  51, 159, 201, 154,
       102,  50,  13, 183,  49,  88, 163,  90,  37,  93,   5,  23,  88, 233,  94, 212,
       171, 178, 205, 198, 155, 180,  84,  17,  14, 130, 116,  65,  33,  61, 220, 135,
       112, 233,  62, 161,  65, 225, 252, 103,  62,   1, 126, 151, 234, 220, 107, 150,
       143,  56,  92,  42, 236, 176,  59, 251,  50, 175,  60,  84, 236,  24, 219,  92,
         2,  26, 254,  67, 251, 250, 170,  58, 251,  41, 209, 230,   5,  60, 124, 148,
       117, 216, 190,  97, 137, 249,  92, 187, 168, 153,  15, 149, 177, 235, 241, 179,
         5, 239, 247,   0, 233, 161,  58, 229, 202,  11, 203, 208,  72,  71, 100, 189,
        31,  35,  30, 168,  28, 123, 100, 197,  20, 115,  90, 197,  94,  75, 121,  99,
        59, 112, 100,  36,  17, 158,   9, 220, 170, 212, 172, 242,  27,  16, 175,  59,
        51, 205, 227,  80,  72,  71,  21,  92, 187, 111,  34,  25, 186, 155, 125, 245,
        11, 225,  26,  28, 127,  35, 248,  41, 248, 164,  27,  19, 181, 202,  78, 232,
       152,  50,  56, 224, 121,  77,  61,  52, 188,  95,  78, 119, 250, 203, 108,   5,
       172, 134,  33,  43, 170,  26,  85, 162, 190, 112, 181, 115,  59,   4,  92, 211,
        54, 148, 179, 175, 226, 240, 228, 158,  79,  50,  21,  73, 253, 130,  78, 169 >>

(***************************************************************************)
(* Camera descriptors and the enumeration.                                 *)
(***************************************************************************)
\* CameraInfo(VmbCameraInfo_t)
CameraInfo(id, nm, mdl, ser) ==
    [idstr |-> id, name |-> nm, model |-> mdl, serial |-> ser]

CamA == CameraInfo(<<"A">>, <<"a">>, <<"m">>, <<"1">>)

CamB == CameraInfo(<<"B">>, <<"b">>, <<"m">>, <<"2">>)

\* results of allied_list_cameras with count > 0
Enumerations == { <<CamA, CamB>> }

\* the -c command line option; the empty string is no filter
CameraIdOptions == { <<>>, <<"B">> }

(***************************************************************************)
(* State.                                                                  *)
(***************************************************************************)
VARIABLES
    pc,               \* position of main: "poll", "woke", "cleanup", "done"; "aborted"
                      \* when startup threw, "crashed" when the loop ended the process
    hasher_state,     \* StringHasher::state
    vmbcaminfos,      \* the descriptors allied_list_cameras returned
    camids,           \* std::vector<uint32_t> camids
    imagecams,        \* std::map<uint32_t, ImageCam *> imagecams
    adio_dev,         \* DeviceHandle adio_dev: TRUE when OpenDIO_aDIO succeeded
    camera_id,        \* std::string camera_id: the -c option, empty for no filter
    capture_timelim,  \* int64_t capture_timelim
    zsys_interrupted, \* the interrupt flag of czmq
    now,              \* zclock_mono(), in ms
    which,            \* result of zpoller_wait: TRUE for the pipe, FALSE for NULL
    inbox,            \* number of requests that wait in the socket
    reply,            \* the reply of the latest pass of the loop, <<>> if none
    nreq,             \* number of requests clients have sent
    nrep,             \* number of replies the loop has sent
    vmb,              \* vendor SDK state per camera: acquisition and features
    port0,            \* levels of the bits of port 0 of the digital I/O device
    cb,               \* the frame callback running on the SDK's thread, per camera
    nframes,          \* number of frame arrivals so far
    calls,            \* vendor and digital I/O calls made by the latest step of main
    session,          \* history: when each camera entered Capturing, -1 when it is
                      \* idle or the ceiling has changed since
    lowered,          \* history: the bit each camera held when it left Capturing
    lastset,          \* history: the latest reply, if it answers a set of a string,
                      \* double, boolean or integer command with success
    request           \* history: the packet main decoded from the message it
                      \* answered last, as the client sent it

vars == << pc, hasher_state, vmbcaminfos, camids, imagecams, adio_dev, camera_id,
           capture_timelim, zsys_interrupted, now, which, inbox, reply, nreq, nrep,
           vmb, port0, cb, nframes, calls, session, lowered, lastset,
           request >>

(***************************************************************************)
(* Program constants.                                                      *)
(***************************************************************************)
\* timeout of zpoller_wait, in ms
PollInterval == 1000
\* initial value of capture_timelim, in ms
DefaultTimelim == 5000
\* smallest capture_timelim a set of capture_maxlen stores
MinTimelim == 1000

(***************************************************************************)
(* The digital I/O port.                                                   *)
(***************************************************************************)
PortBits == 0..7

\* WriteBit_aDIO(adio_hdl, 0, bit, value): drives one bit of port 0 high
\* for a value other than 0, low for 0.  The port has eight bits; the
\* library does not drive anything for another bit index.
WriteBit_aDIO(port, bit, value) ==
    IF bit \in PortBits
    THEN [port EXCEPT ![bit] = IF value # 0 THEN 1 ELSE 0]
    ELSE port

(***************************************************************************)
(* ImageCam                                                                *)
(***************************************************************************)
\* ImageCam::ImageCam(CameraInfo &, DeviceHandle) after allied_open_camera
\* succeeded, with the fields' default member initializers
NewImageCam(camera_info) ==
    [ info               |-> camera_info,
      opened             |-> FALSE,
      state              |-> 0,
      capturing          |-> FALSE,
      capture_start_time |-> -1,
      frames             |-> 0,
      adio_bit           |-> -1,
      handle             |-> TRUE ]

\* ImageCam::running
running(cam) == cam.capturing

\* ImageCam::capture_time(int64_t tnow)
capture_time(cam, tnow) ==
    IF cam.capture_start_time < 0 THEN -1 ELSE tnow - cam.capture_start_time

\* a toggle that leaves the state as it is, which the code does not do
KeepState(st) == st

\* ~state on an unsigned char
Invert(st) == 255 - st

\* a start that marks the camera as capturing whatever the vendor call
\* returned, which the code does not do
start_capture_unchecked(cam, verr, t) ==
    LET called == cam.handle /\ ~cam.capturing
    IN  [ cam    |-> [cam EXCEPT !.frames = 0,
                                 !.capture_start_time = t,
                                 !.capturing = TRUE],
          err    |-> IF called THEN verr ELSE VmbErrorSuccess,
          called |-> called,
          write  |-> FALSE ]

\* ImageCam::start_capture.  verr is what allied_start_capture returns if
\* it is called, t is zclock_mono().  The result names the new handle, the
\* code returned and whether the vendor call was made.
start_capture(cam, verr, t) ==
    LET called == cam.handle /\ ~cam.capturing
        err    == IF called THEN verr ELSE VmbErrorSuccess
    IN  [ cam    |-> IF err = VmbErrorSuccess
                     THEN [cam EXCEPT !.frames = 0,
                                      !.capture_start_time = t,
                                      !.capturing = TRUE]
                     ELSE [cam EXCEPT !.frames = 0,
                                      !.capture_start_time = -1],
          err    |-> err,
          called |-> called,
          write  |-> FALSE ]

\* a stop that leaves the start timestamp as it is, which the code does not
\* do
\* a stop_capture that calls the vendor SDK and writes the port whether the
\* camera is capturing or not
stop_capture_unguarded(cam, verr, adio) ==
    LET called == cam.handle
        write  == called /\ adio /\ cam.adio_bit >= 0
    IN  [ cam    |-> [cam EXCEPT !.state = IF write THEN 0 ELSE @,
                                 !.capturing = FALSE,
                                 !.capture_start_time = -1],
          err    |-> IF called THEN verr ELSE VmbErrorSuccess,
          called |-> called,
          write  |-> write ]

stop_capture_keeps_time(cam, verr, adio) ==
    LET called == cam.handle /\ cam.capturing
        write  == called /\ adio /\ cam.adio_bit >= 0
    IN  [ cam    |-> [cam EXCEPT !.state = IF write THEN 0 ELSE @,
                                 !.capturing = FALSE],
          err    |-> IF called THEN verr ELSE VmbErrorSuccess,
          called |-> called,
          write  |-> write ]

\* a stop that leaves the camera capturing when the vendor call failed,
\* which the code does not do
stop_capture_on_success(cam, verr, adio) ==
    LET called == cam.handle /\ cam.capturing
        write  == called /\ adio /\ cam.adio_bit >= 0
        failed == called /\ verr # VmbErrorSuccess
    IN  [ cam    |-> IF failed THEN [cam EXCEPT !.state = IF write THEN 0 ELSE @]
                     ELSE [cam EXCEPT !.state = IF write THEN 0 ELSE @,
                                      !.capturing = FALSE,
                                      !.capture_start_time = -1],
          err    |-> IF called THEN verr ELSE VmbErrorSuccess,
          called |-> called,
          write  |-> write ]

\* ImageCam::stop_capture.  verr is what allied_stop_capture returns if it
\* is called, adio tells whether adio_hdl is not null.  write tells whether
\* WriteBit_aDIO(adio_hdl, 0, adio_bit, 0) was called.
stop_capture(cam, verr, adio) ==
    LET called == cam.handle /\ cam.capturing
        write  == called /\ adio /\ cam.adio_bit >= 0
    IN  [ cam    |-> [cam EXCEPT !.state = IF write THEN 0 ELSE @,
                                 !.capturing = FALSE,
                                 !.capture_start_time = -1],
          err    |-> IF called THEN verr ELSE VmbErrorSuccess,
          called |-> called,
          write  |-> write ]

(***************************************************************************)
(* The vendor SDK, as the server uses it.  A camera's acquisition runs     *)
(* from a successful allied_start_capture to a successful                  *)
(* allied_stop_capture; a failing call changes nothing.                    *)
(***************************************************************************)
VendorStart(v, verr) ==
    IF verr = VmbErrorSuccess THEN [v EXCEPT !.acquiring = TRUE] ELSE v

VendorStop(v, verr) ==
    IF verr = VmbErrorSuccess THEN [v EXCEPT !.acquiring = FALSE] ELSE v

(***************************************************************************)
(* Doubles.  A double is kept as the integer number of millionths, which   *)
(* is exact for the values of the model (at most six decimals, below       *)
(* 2000).  printf("%.6f") and std::to_string(double) print six decimals.   *)
(***************************************************************************)
Million == 1000000

RECURSIVE PadLeft(_, _)
\* s with zeros put before it up to n characters
PadLeft(s, n) == IF Len(s) >= n THEN s ELSE PadLeft(<<"0">> \o s, n)

\* string_format("%.6f", v) and std::to_string(double v)
FormatF6(v) ==
    LET m == IF v < 0 THEN 0 - v ELSE v
    IN  (IF v < 0 THEN <<"-">> ELSE <<>>)
        \o NatToString(m \div Million) \o <<".">>
        \o PadLeft(NatToString(m % Million), 6)

(***************************************************************************)
(* The registry in iteration order, and the steps main takes on one        *)
(* camera.  A world W is what a step of main reads and writes: the         *)
(* handles (cams), the vendor SDK (vm), the port, the calls made (calls)   *)
(* and the code of the latest operation (err).                             *)
(***************************************************************************)
MinKey(S) == CHOOSE k \in S : \A j \in S : j = k \/ U32Less(k, j)

RECURSIVE KeyOrder(_)
\* the keys of a std::map<uint32_t, ...> in iteration order
KeyOrder(S) ==
    IF S = {} THEN <<>> ELSE <<MinKey(S)>> \o KeyOrder(S \ {MinKey(S)})

\* a call main made: its name, the camera, its argument and what it returned
Call(name, key, arg, ret) == [call |-> name, cam |-> key, arg |-> arg, ret |-> ret]

World == [ cams  |-> imagecams,
           vm    |-> vmb,
           port  |-> port0,
           calls |-> <<>>,
           err   |-> VmbErrorSuccess ]

\* a start that reaches the first handle of the registry whatever key the
\* request resolved to, which the code does not do
ApplyStartFirst(W, k, verr, t) ==
    LET Apply(k0, r) ==
        [ cams  |-> [W.cams EXCEPT ![k0] = r.cam],
          vm    |-> IF r.called THEN [W.vm EXCEPT ![k0] = VendorStart(@, verr)]
                    ELSE W.vm,
          port  |-> W.port,
          calls |-> W.calls \o
                    (IF r.called THEN <<Call("allied_start_capture", k0, <<>>, verr)>>
                     ELSE <<>>),
          err   |-> r.err ]
    IN  Apply(MinKey(DOMAIN W.cams),
              start_capture(W.cams[MinKey(DOMAIN W.cams)], verr, t))

\* image_cam->start_capture() on the handle of key k
ApplyStart(W, k, verr, t) ==
    LET Apply(r) ==
        [ cams  |-> [W.cams EXCEPT ![k] = r.cam],
          vm    |-> IF r.called THEN [W.vm EXCEPT ![k] = VendorStart(@, verr)]
                    ELSE W.vm,
          port  |-> W.port,
          calls |-> W.calls \o
                    (IF r.called THEN <<Call("allied_start_capture", k, <<>>, verr)>>
                     ELSE <<>>),
          err   |-> r.err ]
    IN  Apply(start_capture(W.cams[k], verr, t))

\* image_cam->stop_capture() on the handle of key k
ApplyStop(W, k, verr, adio) ==
    LET Apply(r) ==
        [ cams  |-> [W.cams EXCEPT ![k] = r.cam],
          vm    |-> IF r.called THEN [W.vm EXCEPT ![k] = VendorStop(@, verr)]
                    ELSE W.vm,
          port  |-> IF r.write THEN WriteBit_aDIO(W.port, W.cams[k].adio_bit, 0)
                    ELSE W.port,
          calls |-> W.calls \o
                    (IF r.called THEN <<Call("allied_stop_capture", k, <<>>, verr)>>
                     ELSE <<>>) \o
                    (IF r.write
                     THEN <<Call("WriteBit_aDIO", k, <<W.cams[k].adio_bit, 0>>,
                                 VmbErrorSuccess)>>
                     ELSE <<>>),
          err   |-> r.err ]
    IN  Apply(stop_capture(W.cams[k], verr, adio))

\* a ceiling check that stops a camera as soon as its capture time reaches
\* the limit, which the code's comparison does not do
ExpiredAtLimit(cam, currtime, timelim) ==
    running(cam) /\ capture_time(cam, currtime) >= timelim

\* whether the ceiling check stops this camera at time currtime
Expired(cam, currtime, timelim) ==
    running(cam) /\ capture_time(cam, currtime) > timelim

RECURSIVE CeilingCheck(_, _, _, _, _, _)
\* the loop over imagecams after zpoller_wait returned: every running
\* camera whose capture time exceeds the limit is stopped
CeilingCheck(W, order, currtime, timelim, ve, adio) ==
    IF order = <<>> THEN W
    ELSE LET k == Head(order)
         IN  CeilingCheck(
                 IF Expired(W.cams[k], currtime, timelim)
                 THEN ApplyStop(W, k, ve[k], adio) ELSE W,
                 Tail(order), currtime, timelim, ve, adio)

\* a loop that ends after its first camera whatever that camera returned,
\* which the code does not do
StartAllFirstOnly(W, order, ve, t) ==
    IF order = <<>> THEN W
    ELSE ApplyStart(W, Head(order), ve[Head(order)], t)

RECURSIVE StartAll(_, _, _, _)
\* the loop of start_capture_all: it ends at the first camera that fails
StartAll(W, order, ve, t) ==
    LET Rest(W1) ==
            IF W1.err # VmbErrorSuccess THEN W1 ELSE StartAll(W1, Tail(order), ve, t)
    IN  IF order = <<>> THEN W
        ELSE Rest(ApplyStart(W, Head(order), ve[Head(order)], t))

RECURSIVE StopAll(_, _, _, _)
\* the loop of stop_capture_all: it ends at the first camera that fails
StopAll(W, order, ve, adio) ==
    LET Rest(W1) ==
            IF W1.err # VmbErrorSuccess THEN W1 ELSE StopAll(W1, Tail(order), ve, adio)
    IN  IF order = <<>> THEN W
        ELSE Rest(ApplyStop(W, Head(order), ve[Head(order)], adio))

(***************************************************************************)
(* atof on the argument strings of the model: optional white space, an     *)
(* optional sign, digits, and an optional point followed by digits (the    *)
(* model's arguments carry at most six).  Anything else parses as 0.       *)
(***************************************************************************)
RECURSIVE DigitPrefix(_)
DigitPrefix(s) ==
    IF s # <<>> /\ IsDigit(Head(s)) THEN <<Head(s)>> \o DigitPrefix(Tail(s))
    ELSE <<>>

RECURSIVE PadRight(_, _)
PadRight(s, n) == IF Len(s) >= n THEN s ELSE PadRight(Append(s, "0"), n)

atof(str) ==
    LET Six(fp) == PadRight(SubSeq(fp, 1, IF Len(fp) < 6 THEN Len(fp) ELSE 6), 6)
        Fraction(rest) ==
            IF rest # <<>> /\ Head(rest) = "." THEN Six(DigitPrefix(Tail(rest)))
            ELSE Six(<<>>)
        Value(body, ip) ==
            LongVal(atol(ip)) * Million
            + LongVal(atol(Fraction(SubSeq(body, Len(ip) + 1, Len(body)))))
        Unsigned(body) == Value(body, DigitPrefix(body))
        Parse(s) ==
            (IF s # <<>> /\ Head(s) = "-" THEN -1 ELSE 1)
            * Unsigned(IF s # <<>> /\ Head(s) \in {"-", "+"} THEN Tail(s) ELSE s)
    IN  Parse(SkipSpace(str))

RECURSIVE ToLower(_)
\* the loop narg[i] = tolower(narg[i])
ToLower(s) == IF s = <<>> THEN <<>> ELSE <<tolower(Head(s))>> \o ToLower(Tail(s))

(***************************************************************************)
(* CommandNames                                                            *)
(***************************************************************************)
image_format == 100
sensor_bit_depth == 101
trigline == 102
trigline_src == 103
exposure_us == 104
acq_framerate == 105
acq_framerate_auto == 106
frame_size == 107
image_size == 200
image_ofst == 201
sensor_size == 202
throughput_limit == 300
throughput_limit_range == 301
camera_info == 302
adio_bit == 10
capture_maxlen == 400

\* the commands the SET_CASE_ and GET_CASE_ macros serve, by shape.  (The
\* cases of main for trigline_mode and for the _list commands name no
\* member of CommandNames, so no command code reaches them.)
StrCommands  == {image_format, sensor_bit_depth, trigline, trigline_src}
DblCommands  == {exposure_us, acq_framerate}
BoolCommands == {acq_framerate_auto}
IntCommands  == {throughput_limit}
PairCommands == {image_size, image_ofst}

\* the vendor feature a command reads or writes
FeatureOf(code) ==
    CASE code = image_format -> "image_format"
      [] code = sensor_bit_depth -> "sensor_bit_depth"
      [] code = trigline -> "trigline"
      [] code = trigline_src -> "trigline_src"
      [] code = exposure_us -> "exposure_us"
      [] code = acq_framerate -> "acq_framerate"
      [] code = acq_framerate_auto -> "acq_framerate_auto"
      [] code = throughput_limit -> "throughput_limit"
      [] code = image_size -> "image_size"
      [] code = image_ofst -> "image_ofst"
      [] code = sensor_size -> "sensor_size"
      [] code = frame_size -> "frame_size"
      [] code = throughput_limit_range -> "throughput_limit_range"

(***************************************************************************)
(* The vendor SDK's features.  A successful set stores the value the       *)
(* camera applies: numbers are brought into the feature's range.           *)
(***************************************************************************)
\* range of the integer and double features of the model's cameras
VendorMin == 1
VendorMax == 1000

Clamp(v, lo, hi) == IF v < lo THEN lo ELSE IF v > hi THEN hi ELSE v

\* the value the camera applies for a requested value
VendorApply(feature, v) ==
    CASE feature \in {"throughput_limit"} -> Clamp(v, VendorMin, VendorMax)
      [] feature \in {"exposure_us", "acq_framerate"} ->
             Clamp(v, VendorMin * Million, VendorMax * Million)
      [] feature \in {"image_size", "image_ofst"} ->
             << Clamp(v[1], VendorMin, VendorMax), Clamp(v[2], VendorMin, VendorMax) >>
      [] OTHER -> v

\* the state of the vendor SDK for a camera that has just been opened
NewVendorCam ==
    [ open |-> TRUE,
      acquiring |-> FALSE,
      feat |-> [ image_format |-> <<"M">>,
                 sensor_bit_depth |-> <<"8">>,
                 trigline |-> <<"L">>,
                 trigline_src |-> <<"S">>,
                 exposure_us |-> 100 * Million,
                 acq_framerate |-> 10 * Million,
                 acq_framerate_auto |-> FALSE,
                 throughput_limit |-> 500,
                 image_size |-> <<640, 480>>,
                 image_ofst |-> <<1, 1>>,
                 sensor_size |-> <<1000, 1000>>,
                 frame_size |-> 307200,
                 throughput_limit_range |-> <<VendorMin, VendorMax>>,
                 temperature |-> 25 * Million,
                 temperature_src |-> <<"S">> ] ]

\* allied_set_<feature>(handle, v) returning verr
VendorSet(v, feature, value, verr) ==
    IF verr = VmbErrorSuccess
    THEN [v EXCEPT !.feat[feature] = VendorApply(feature, value)]
    ELSE v

\* allied_get_<feature>(handle, &out) returning verr: out holds the feature
\* on success and is left as it was (before) on failure
VendorGet(v, feature, before, verr) ==
    IF verr = VmbErrorSuccess THEN v.feat[feature] ELSE before

(***************************************************************************)
(* The get and set verbs on a camera the registry holds.  o names what the *)
(* vendor calls of the request return (o.set, o.get) and, for a variable   *)
(* that a failing call leaves uninitialized, what it holds (o.junk) and    *)
(* whether using it as a pointer ends the process (o.crash).               *)
(***************************************************************************)
True  == <<"T", "r", "u", "e">>
False == <<"F", "a", "l", "s", "e">>

BoolString(b) == IF b THEN True ELSE False

\* a get that prints the boolean as a number, which the code does not do
GetBoolAsNumber(garg) == IF garg THEN <<"1">> ELSE <<"0">>

\* GET_CASE_BOOL: garg == VmbBoolTrue ? "True" : "False"
GetBool(garg) == BoolString(garg)

\* what an uninitialized char * reads as, when reading it does not fault
JunkString == <<"?">>

\* std::to_string(const CameraInfo &)
InfoToString(info) ==
    <<"I", "D", ":", " ">> \o info.idstr \o <<",", "\n">>
    \o <<"N", "a", "m", "e", ":", " ">> \o info.name \o <<",", "\n">>
    \o <<"M", "o", "d", "e", "l", ":", " ">> \o info.model \o <<",", "\n">>
    \o <<"S", "e", "r", "i", "a", "l", ":", " ">> \o info.serial \o <<",", "\n">>

GetResult(err, retargs, crash, made) ==
    [err |-> err, retargs |-> retargs, crash |-> crash, calls |-> made]

\* the switch of the get verb: cam is the handle, v the vendor's state of
\* that camera, k its key
GetCase(cam, v, k, code, timelim, o) ==
    LET f  == FeatureOf(code)
        c1 == <<Call("allied_get", k, f,
                     IF code = frame_size THEN VmbErrorSuccess ELSE o.get)>>
    IN  CASE code \in StrCommands ->
               GetResult(o.get, <<VendorGet(v, f, JunkString, o.get)>>,
                         o.get # VmbErrorSuccess /\ o.crash, c1)
          [] code \in DblCommands ->
               GetResult(o.get, <<FormatF6(VendorGet(v, f, o.junk, o.get))>>,
                         FALSE, c1)
          [] code \in BoolCommands ->
               GetResult(o.get, <<GetBool(VendorGet(v, f, o.junk = 1, o.get))>>,
                         FALSE, c1)
          [] code \in IntCommands ->
               GetResult(o.get, <<to_string(VendorGet(v, f, o.junk, o.get))>>,
                         FALSE, c1)
          [] code = frame_size ->
               GetResult(VmbErrorSuccess, <<to_string(v.feat[f])>>, FALSE, c1)
          [] code \in {sensor_size, image_size, image_ofst, throughput_limit_range} ->
               LET p == VendorGet(v, f, <<0, 0>>, o.get)
               IN  GetResult(o.get, <<to_string(p[1]), to_string(p[2])>>, FALSE, c1)
          [] code = adio_bit ->
               GetResult(VmbErrorSuccess, <<to_string(cam.adio_bit)>>, FALSE, <<>>)
          [] code = camera_info ->
               \* no break: control falls through to capture_maxlen
               GetResult(VmbErrorSuccess,
                         <<InfoToString(cam.info), to_string(timelim)>>, FALSE, <<>>)
          [] code = capture_maxlen ->
               GetResult(VmbErrorSuccess, <<to_string(timelim)>>, FALSE, <<>>)
          [] OTHER ->
               GetResult(VmbErrorWrongType, <<>>, FALSE, <<>>)

SetResult(W, err, retargs, timelim) ==
    [ cams |-> W.cams, vm |-> W.vm, port |-> W.port, calls |-> W.calls,
      err |-> err, retargs |-> retargs, lim |-> timelim ]

\* a set that replies with the parsed argument and skips the read-back,
\* which the code does not do
SetAndEcho(v, f, value, o) ==
    LET Echo(v1) == [v |-> v1, out |-> value, err |-> o.set]
    IN  Echo(VendorSet(v, f, value, o.set))

\* SET_CASE_STR, SET_CASE_INT, SET_CASE_DBL, SET_CASE_BOOL: parse, set, read
\* back, reply with the variable the read-back wrote to.  value is the
\* parsed argument; the result is the vendor's new state and that variable.
SetAndReadBack(v, f, value, o) ==
    LET ReadBack(v1) ==
            [v |-> v1, out |-> VendorGet(v1, f, value, o.get), err |-> o.get]
    IN  ReadBack(VendorSet(v, f, value, o.set))

WithVendor(W, k, v, f, o) ==
    [W EXCEPT !.vm[k] = v,
              !.calls = @ \o <<Call("allied_set", k, f, o.set),
                               Call("allied_get", k, f, o.get)>>]

\* the set of image_size and image_ofst, after the check of the argument
\* count: the read-back is skipped when the set fails
SetPair(W, k, f, value, timelim, o) ==
    LET Pair(p) == <<to_string(p[1]), to_string(p[2])>>
        ReadBack(v1) ==
            SetResult(WithVendor(W, k, v1, f, o), o.get,
                      Pair(VendorGet(v1, f, value, o.get)), timelim)
    IN  IF o.set # VmbErrorSuccess
        THEN SetResult([W EXCEPT !.calls = @ \o <<Call("allied_set", k, f, o.set)>>],
                       o.set, <<>>, timelim)
        ELSE ReadBack(VendorSet(W.vm[k], f, value, o.set))

\* a set of capture_maxlen that stores the parsed argument as it is, which
\* the code does not do
StoreTimelim(arg1l) == arg1l

\* the value of capture_timelim a set of capture_maxlen stores
ClampTimelim(arg1l) == IF arg1l < MinTimelim THEN MinTimelim ELSE arg1l

\* a test of the argument count that lets a third argument pass, which the
\* code does not do
TooFewArguments(arguments) == Len(arguments) < 2

\* packet.arguments.size() != 2
WrongArity(arguments) == Len(arguments) # 2

\* a default case that leaves err as it was, which the code does not do
SetDefaultSilent(W, timelim) == SetResult(W, VmbErrorSuccess, <<>>, timelim)

\* the default case of the switch of the set verb: err = VmbErrorWrongType
SetDefault(W, timelim) == SetResult(W, VmbErrorWrongType, <<>>, timelim)

\* the switch of the set verb on the handle of key k; arguments is not empty
SetCase(W, k, code, arguments, timelim, o) ==
    LET Reply(f, r, retargs) ==
            SetResult(WithVendor(W, k, r.v, f, o), r.err, retargs, timelim)
        StrCase(f, r)  == Reply(f, r, <<r.out>>)
        DblCase(f, r)  == Reply(f, r, <<FormatF6(r.out)>>)
        BoolCase(f, r) == Reply(f, r, <<BoolString(r.out)>>)
        IntCase(f, r)  == Reply(f, r, <<to_string(r.out)>>)
        Long(arg1l) ==
            SetResult(W, VmbErrorSuccess, <<to_string(arg1l)>>, arg1l)
        Switch(f, argument) ==
            CASE code \in StrCommands ->
                   StrCase(f, SetAndReadBack(W.vm[k], f, argument, o))
              [] code \in DblCommands ->
                   DblCase(f, SetAndReadBack(W.vm[k], f, atof(argument), o))
              [] code \in BoolCommands ->
                   BoolCase(f, SetAndReadBack(W.vm[k], f,
                                          ToLower(argument) = ToLower(True), o))
              [] code \in IntCommands ->
                   IntCase(f, SetAndReadBack(W.vm[k], f, LongVal(atol(argument)), o))
              [] code \in PairCommands ->
                   IF WrongArity(arguments)
                   THEN SetResult(W, VmbErrorWrongType, <<>>, timelim)
                   ELSE SetPair(W, k, f,
                                <<LongVal(atol(arguments[1])),
                                  LongVal(atol(arguments[2]))>>,
                                timelim, o)
              [] code = adio_bit ->
                   SetResult([W EXCEPT !.cams[k].adio_bit = ToInt32(atol(argument))],
                             VmbErrorSuccess, <<to_string(LongVal(atol(argument)))>>,
                             timelim)
              [] code = capture_maxlen ->
                   Long(ClampTimelim(LongVal(atol(argument))))
              [] OTHER -> SetDefault(W, timelim)
    IN  Switch(FeatureOf(code), arguments[1])

(***************************************************************************)
(* The verbs.                                                              *)
(***************************************************************************)
\* NetPacket
NetPacket(cmd_type, cam_id, command, arguments, retargs) ==
    [ cmd_type  |-> cmd_type,
      cam_id    |-> cam_id,
      command   |-> command,
      arguments |-> arguments,
      retcode   |-> VmbErrorSuccess,
      retargs   |-> retargs ]

\* what handling a request leaves behind: the world, the ceiling, the
\* interrupt flag, the result code, the return values, and whether the
\* process ended before a reply was sent
Result(W, err, retargs, timelim, intr, crash) ==
    [ cams |-> W.cams, vm |-> W.vm, port |-> W.port, calls |-> W.calls,
      err |-> err, retargs |-> retargs, lim |-> timelim, intr |-> intr,
      crash |-> crash ]

\* a status that reports every camera as idle, which the code does not do
StatusOfIdle(cam, v, o) ==
    << BoolString(FALSE),
       VendorGet(v, "temperature_src", JunkString, o.get2),
       FormatF6(VendorGet(v, "temperature", o.junk, o.get)) >>

\* the three values the status verb pushes for one camera; the temperature
\* and its source are read into uninitialized variables
StatusOf(cam, v, o) ==
    << BoolString(running(cam)),
       VendorGet(v, "temperature_src", JunkString, o.get2),
       FormatF6(VendorGet(v, "temperature", o.junk, o.get)) >>

RECURSIVE StatusAll(_, _, _, _)
\* the loop of the status verb with an empty cam_id
StatusAll(order, cams, vm, o) ==
    IF order = <<>> THEN <<>>
    ELSE LET k == Head(order)
         IN  << U32ToString(k), cams[k].info.idstr >>
             \o StatusOf(cams[k], vm[k], o)
             \o StatusAll(Tail(order), cams, vm, o)

\* a list verb that walks the registry instead of camids, which the code
\* does not do
ListOfRegistry(ids) ==
    LET order == KeyOrder(DOMAIN imagecams)
    IN  [i \in 1..Len(order) |-> U32ToString(order[i])]

RECURSIVE ListOf(_)
\* the loop of the list verb over camids
ListOf(ids) ==
    IF ids = <<>> THEN <<>> ELSE <<U32ToString(Head(ids))>> \o ListOf(Tail(ids))

\* uint32_t chash = atol(packet.cam_id.c_str())
CamHash(cam_id) == ToUint32(atol(cam_id))

\* imagecams.at(chash) does not throw std::out_of_range
Found(cam_id) == CamHash(cam_id) \in DOMAIN imagecams

\* catch (const std::out_of_range &oor): err = VmbErrorNotFound
OutOfRange == Result(World, VmbErrorNotFound, <<>>, capture_timelim,
                     zsys_interrupted, FALSE)

\* a get verb whose switch serves capture_maxlen before the lookup of the
\* camera, which the code does not do
HandleGetCeilingFirst(packet, o) ==
    LET Reply(g) ==
            Result([World EXCEPT !.calls = g.calls], g.err, g.retargs,
                   capture_timelim, zsys_interrupted, g.crash)
        Get(chash) ==
            Reply(GetCase(imagecams[chash], vmb[chash], chash, packet.command,
                          capture_timelim, o))
    IN  IF packet.command = capture_maxlen
        THEN Result(World, VmbErrorSuccess, <<to_string(capture_timelim)>>,
                    capture_timelim, zsys_interrupted, FALSE)
        ELSE IF Found(packet.cam_id) THEN Get(CamHash(packet.cam_id))
        ELSE OutOfRange

\* a get verb that assigns bit 0 to the camera it reads, which the code does
\* not do
HandleGetAssigning(packet, o) ==
    LET Reply(g, chash) ==
            Result([World EXCEPT !.calls = g.calls, !.cams[chash].adio_bit = 0],
                   g.err, g.retargs, capture_timelim, zsys_interrupted, g.crash)
        Get(chash) ==
            Reply(GetCase(imagecams[chash], vmb[chash], chash, packet.command,
                          capture_timelim, o), chash)
    IN  IF Found(packet.cam_id) THEN Get(CamHash(packet.cam_id)) ELSE OutOfRange

\* the get verb: the lookup of the camera, then the switch
HandleGet(packet, o) ==
    LET Reply(g) ==
            Result([World EXCEPT !.calls = g.calls], g.err, g.retargs,
                   capture_timelim, zsys_interrupted, g.crash)
        Get(chash) ==
            Reply(GetCase(imagecams[chash], vmb[chash], chash, packet.command,
                          capture_timelim, o))
    IN  IF Found(packet.cam_id) THEN Get(CamHash(packet.cam_id)) ELSE OutOfRange

\* a set verb that looks the camera up before it counts the arguments,
\* which the code does not do
HandleSetLookupFirst(packet, o) ==
    LET Reply(r) == Result(r, r.err, r.retargs, r.lim, zsys_interrupted, FALSE)
    IN  IF ~Found(packet.cam_id)
        THEN OutOfRange
        ELSE IF Len(packet.arguments) < 1
        THEN Result(World, VmbErrorNoData, <<>>, capture_timelim,
                    zsys_interrupted, FALSE)
        ELSE Reply(SetCase(World, CamHash(packet.cam_id), packet.command,
                           packet.arguments, capture_timelim, o))

\* the set verb: the count of the arguments, the lookup of the camera, then
\* the switch
HandleSet(packet, o) ==
    LET Reply(r) == Result(r, r.err, r.retargs, r.lim, zsys_interrupted, FALSE)
    IN  IF Len(packet.arguments) < 1
        THEN Result(World, VmbErrorNoData, <<>>, capture_timelim,
                    zsys_interrupted, FALSE)
        ELSE IF Found(packet.cam_id)
        THEN Reply(SetCase(World, CamHash(packet.cam_id), packet.command,
                           packet.arguments, capture_timelim, o))
        ELSE OutOfRange

\* a last else that leaves err as it was, which the code does not do
UnknownVerbAccepted == Result(World, VmbErrorSuccess, <<>>, capture_timelim,
                              zsys_interrupted, FALSE)

\* the last else of the chain of verbs: err = VmbErrorBadParameter
UnknownVerb == Result(World, VmbErrorBadParameter, <<>>, capture_timelim,
                      zsys_interrupted, FALSE)

\* One pass through the body of the loop for a decoded packet, from
\* packet.retargs.clear() to the assignment of packet.retcode.  t is
\* zclock_mono().
Handle(packet, o, t) ==
    LET Reply(W) ==
            Result(W, W.err, <<>>, capture_timelim, zsys_interrupted, FALSE)
        Values(retargs, crash) ==
            Result(World, VmbErrorSuccess, retargs, capture_timelim,
                   zsys_interrupted, crash)
        Status(chash) ==
            Values(StatusOf(imagecams[chash], vmb[chash], o),
                   o.get2 # VmbErrorSuccess /\ o.crash)
        StatusEach(order) ==
            Values(StatusAll(order, imagecams, vmb, o),
                   order # <<>> /\ o.get2 # VmbErrorSuccess /\ o.crash)
        Start(chash) == Reply(ApplyStart(World, chash, o.ve[chash], t))
        Stop(chash) == Reply(ApplyStop(World, chash, o.ve[chash], adio_dev))
    IN  CASE packet.cmd_type = "quit" ->
               Result(World, VmbErrorSuccess, <<>>, capture_timelim, TRUE, FALSE)
          [] packet.cmd_type = "status" ->
               IF packet.cam_id # <<>>
               THEN IF Found(packet.cam_id) THEN Status(CamHash(packet.cam_id))
                    ELSE OutOfRange
               ELSE StatusEach(KeyOrder(DOMAIN imagecams))
          [] packet.cmd_type = "list" ->
               Values(ListOf(camids), FALSE)
          [] packet.cmd_type = "start_capture_all" ->
               Reply(StartAll(World, KeyOrder(DOMAIN imagecams), o.ve, t))
          [] packet.cmd_type = "stop_capture_all" ->
               Reply(StopAll(World, KeyOrder(DOMAIN imagecams), o.ve, adio_dev))
          [] packet.cmd_type = "start_capture" ->
               IF Found(packet.cam_id) THEN Start(CamHash(packet.cam_id))
               ELSE OutOfRange
          [] packet.cmd_type = "stop_capture" ->
               IF Found(packet.cam_id) THEN Stop(CamHash(packet.cam_id))
               ELSE OutOfRange
          [] packet.cmd_type = "get" -> HandleGet(packet, o)
          [] packet.cmd_type = "set" -> HandleSet(packet, o)
          [] OTHER -> UnknownVerb

(***************************************************************************)
(* Startup: the registry build.                                            *)
(***************************************************************************)
\* camera idx passes the filter of the -c option
PassesFilter(infos, option, idx) == option = <<>> \/ option = infos[idx].idstr

\* the hash main computes for each enumerated camera, in enumeration order
HashesOf(tbl, infos) == [i \in 1..Len(infos) |-> get_hash(tbl, infos[i].idstr)]

\* The registry after the cameras 1..n of the enumeration have been
\* visited: std::map::insert keeps the element a key already has.
Registry(tbl, infos, option, n) ==
    LET ids    == HashesOf(tbl, infos)
        pass   == {i \in 1..n : PassesFilter(infos, option, i)}
        keys   == {ids[i] : i \in pass}
        first(k) == CHOOSE i \in pass :
                        ids[i] = k /\ \A j \in pass : ids[j] = k => i <= j
    IN  [k \in keys |-> NewImageCam(infos[first(k)])]

\* what allied_open_camera returns for each enumerated camera: all succeed,
\* or one fails
OpenOutcomes(n) ==
    {[i \in 1..n |-> TRUE]} \cup {[i \in 1..n |-> i # j] : j \in 1..n}

\* the first camera whose constructor throws, 0 if none does
FirstFailure(infos, option, opens) ==
    LET bad == {i \in 1..Len(infos) : PassesFilter(infos, option, i) /\ ~opens[i]}
    IN  IF bad = {} THEN 0 ELSE CHOOSE i \in bad : \A j \in bad : i <= j

Init ==
    \E infos \in Enumerations, option \in CameraIdOptions, tbl \in Tables,
       dio \in BOOLEAN :
      \E opens \in OpenOutcomes(Len(infos)) :
        \E bad \in {FirstFailure(infos, option, opens)} :
        \E reg \in {Registry(tbl, infos, option,
                              IF bad = 0 THEN Len(infos) ELSE bad - 1)} :
            /\ pc = IF bad = 0 THEN "poll" ELSE "aborted"
            /\ hasher_state = tbl
            /\ vmbcaminfos = infos
            /\ camids = IF bad = 0 THEN HashesOf(tbl, infos)
                        ELSE SubSeq(HashesOf(tbl, infos), 1, bad)
            /\ imagecams = reg
            /\ adio_dev = dio
            /\ camera_id = option
            /\ capture_timelim = DefaultTimelim
            /\ zsys_interrupted = FALSE
            /\ now = 0
            /\ which = FALSE
            /\ inbox = 0
            /\ reply = <<>>
            /\ nreq = 0
            /\ nrep = 0
            /\ vmb = [k \in DOMAIN reg |-> NewVendorCam]
            /\ port0 = [b \in PortBits |-> 0]
            /\ cb = [k \in DOMAIN reg |->
                        [pc |-> "idle", r_frames |-> 0, r_state |-> 0, r_bit |-> -1]]
            /\ nframes = 0
            /\ calls = <<>>
            /\ session = [k \in DOMAIN reg |-> -1]
            /\ lowered = [k \in DOMAIN reg |-> -1]
            /\ lastset = <<>>
            /\ request = <<>>

(***************************************************************************)
(* Startup, one camera of the enumeration at a time.                       *)
(***************************************************************************)
\* a second descriptor with the identifier string of CamA, and a descriptor
\* with a longer identifier string
CamA2 == CameraInfo(<<"A">>, <<"c">>, <<"m">>, <<"3">>)

CamAB == CameraInfo(<<"A", "B">>, <<"d">>, <<"m">>, <<"4">>)

\* two descriptors with distinct one-character identifier strings
Cam8 == CameraInfo(<<"8">>, <<"e">>, <<"m">>, <<"5">>)

CamQ == CameraInfo(<<"Q">>, <<"f">>, <<"m">>, <<"6">>)

StartupCams == {CamA, CamB, CamA2, CamAB, Cam8, CamQ}

\* the tables of the runs that follow the startup
StartupTables == Tables \cup {GlibcTable}

\* results of allied_list_cameras with 1..MaxCams cameras
StartupEnumerations ==
    UNION { [1..n -> StartupCams] : n \in 1..MaxCams }

\* the state before the loop over vmbcaminfos: the hasher is constructed,
\* the cameras are listed, the registry is empty
InitStartup ==
    /\ pc = "startup"
    /\ hasher_state \in StartupTables
    /\ vmbcaminfos \in StartupEnumerations
    /\ camera_id \in CameraIdOptions \cup {<<"A">>}
    /\ adio_dev \in BOOLEAN
    /\ camids = <<>>
    /\ imagecams = <<>>
    /\ capture_timelim = DefaultTimelim
    /\ zsys_interrupted = FALSE
    /\ now = 0
    /\ which = FALSE
    /\ inbox = 0
    /\ reply = <<>>
    /\ nreq = 0
    /\ nrep = 0
    /\ vmb = <<>>
    /\ port0 = [b \in PortBits |-> 0]
    /\ cb = <<>>
    /\ nframes = 0
    /\ calls = <<>>
    /\ session = <<>>
    /\ lowered = <<>>
    /\ lastset = <<>>
    /\ request = <<>>

\* a constructor that returns although allied_open_camera failed, which
\* the code does not do
ConstructQuietly(caminfo, opens) ==
    [ cam    |-> [NewImageCam(caminfo) EXCEPT !.handle = opens],
      v      |-> [NewVendorCam EXCEPT !.open = opens],
      thrown |-> FALSE ]

\* new ImageCam(caminfo, adio_dev), where opens tells whether
\* allied_open_camera succeeds: the handle, the vendor's session, and
\* whether the constructor throws std::runtime_error
Construct(caminfo, opens) ==
    [ cam    |-> [NewImageCam(caminfo) EXCEPT !.handle = opens],
      v      |-> [NewVendorCam EXCEPT !.open = opens],
      thrown |-> ~opens ]

\* f with the key k added and mapped to v
Inserted(f, k, v) == [j \in DOMAIN f \cup {k} |-> IF j = k THEN v ELSE f[j]]

\* One turn of the loop over vmbcaminfos: the hash of the descriptor is
\* computed and pushed to camids; a camera the filter rejects is skipped;
\* otherwise the ImageCam is constructed, which ends the process when
\* allied_open_camera fails, and std::map::insert adds it unless the key
\* is there already.
EnumerateCamera ==
    /\ pc = "startup"
    /\ Len(camids) < Len(vmbcaminfos)
    /\ \E caminfo \in {vmbcaminfos[Len(camids) + 1]}, opens \in BOOLEAN :
         \E r \in {hasher_get_hash(hasher_state, caminfo.idstr)},
            c \in {Construct(caminfo, opens)} :
           /\ hasher_state' = r.state
           /\ camids' = Append(camids, r.hash)
           /\ IF camera_id # <<>> /\ camera_id # caminfo.idstr
              THEN /\ opens
                   /\ UNCHANGED << pc, imagecams, vmb, cb, session, lowered >>
              ELSE IF c.thrown
              THEN /\ pc' = "aborted"
                   /\ UNCHANGED << imagecams, vmb, cb, session, lowered >>
              ELSE IF r.hash \in DOMAIN imagecams
              THEN UNCHANGED << pc, imagecams, vmb, cb, session, lowered >>
              ELSE /\ imagecams' = Inserted(imagecams, r.hash, c.cam)
                   /\ vmb' = Inserted(vmb, r.hash, c.v)
                   /\ cb' = Inserted(cb, r.hash,
                                     [pc |-> "idle", r_frames |-> 0,
                                      r_state |-> 0, r_bit |-> -1])
                   /\ session' = Inserted(session, r.hash, -1)
                   /\ lowered' = Inserted(lowered, r.hash, -1)
                   /\ pc' = pc
    /\ UNCHANGED << vmbcaminfos, adio_dev, camera_id, capture_timelim,
                    zsys_interrupted, now, which, inbox, reply, nreq, nrep,
                    port0, nframes, calls, lastset, request >>

\* the loop over vmbcaminfos has ended: main goes on to the request loop
StartupDone ==
    /\ pc = "startup"
    /\ Len(camids) = Len(vmbcaminfos)
    /\ pc' = "poll"
    /\ UNCHANGED << hasher_state, vmbcaminfos, camids, imagecams, adio_dev,
                    camera_id, capture_timelim, zsys_interrupted, now, which,
                    inbox, reply, nreq, nrep, vmb, port0, cb, nframes, calls,
                    session, lowered, lastset, request >>

(***************************************************************************)
(* Clients.                                                                *)
(***************************************************************************)
\* camera identifiers clients send: none, every identity list reports, and
\* an identity list does not report
CamIds == {<<>>, <<"7">>} \cup {U32ToString(camids[i]) : i \in 1..Len(camids)}

\* arguments a client sends with a set of a command
ArgumentsFor(code) ==
    CASE code \in StrCommands -> { <<>>, << <<"R">> >> }
      [] code \in DblCommands -> { << <<"1", ".", "5">> >>, << <<"2", "0", "0", "0">> >> }
      [] code \in BoolCommands -> { << <<"T", "R", "U", "E">> >>, << <<"n", "o">> >> }
      [] code \in IntCommands -> { <<>>, << <<"1", "0", "0">> >>, << <<"5", "0", "0", "0">> >> }
      [] code \in PairCommands ->
             { <<>>, << <<"6", "4">>, <<"4", "8">> >>, << <<"6", "4">> >>,
               << <<"6", "4">>, <<"4", "8">>, <<"1">> >> }
      [] code = adio_bit ->
             { <<>>, << <<"0">> >>, << <<"1">> >>, << <<"-", "1">> >>,
               << <<"8">> >>, << <<"-", "5">> >> }
      [] code = capture_maxlen ->
             { <<>>, << <<"5", "0", "0">> >>, << <<"2", "0", "0", "0">> >>,
               << <<"a", "b", "c">> >>, << <<"-", "5">> >> }
      [] OTHER -> { <<>>, << <<"1">> >> }

\* the command codes of CommandNames and one that is not a member
CommandCodes ==
    StrCommands \cup DblCommands \cup BoolCommands \cup IntCommands
    \cup PairCommands
    \cup {frame_size, sensor_size, throughput_limit_range, camera_info, adio_bit,
          capture_maxlen, 0}

\* requests with the verbs that take no command code
VerbRequests ==
    { NetPacket(verb, id, 0, <<>>, <<>>) :
        verb \in {"start_capture", "stop_capture", "status"}, id \in CamIds }
    \cup { NetPacket(verb, <<>>, 0, <<>>, <<>>) :
             verb \in {"quit", "list", "start_capture_all", "stop_capture_all",
                       "reset"} }

\* get and set requests
GetRequests ==
    { NetPacket("get", id, code, <<>>, <<>>) : id \in CamIds, code \in CommandCodes }

SetRequests ==
    UNION { { NetPacket("set", id, code, args, <<>>) :
                id \in CamIds, args \in ArgumentsFor(code) } : code \in CommandCodes }

\* get and set requests of the commands main serves without the vendor SDK
LocalRequests ==
    { NetPacket("get", id, code, <<>>, <<>>) :
        id \in CamIds, code \in {adio_bit, capture_maxlen} }
    \cup UNION { { NetPacket("set", id, code, args, <<>>) :
                     id \in CamIds, args \in ArgumentsFor(code) } :
                 code \in {adio_bit, capture_maxlen} }

\* the requests of the capture engine
EngineRequests ==
    VerbRequests \cup { r \in LocalRequests : r.command = capture_maxlen }

\* the requests that start and stop capture sessions and assign the
\* digital output bit, for the cameras of the registry
FrameRequests ==
    { NetPacket(verb, U32ToString(k), 0, <<>>, <<>>) :
        verb \in {"start_capture", "stop_capture"}, k \in DOMAIN imagecams }
    \cup { NetPacket(verb, <<>>, 0, <<>>, <<>>) :
             verb \in {"start_capture_all", "stop_capture_all"} }
    \cup { NetPacket("set", U32ToString(k), adio_bit, args, <<>>) :
             k \in DOMAIN imagecams,
             args \in { << <<"0">> >>, << <<"1">> >>, << <<"-", "1">> >> } }

\* requests that carry return values, as a client sends that reuses the
\* packet of an earlier reply
StaleRequests ==
    { NetPacket(verb, id, code, <<>>, << <<"9">> >>) :
        verb \in {"list", "start_capture", "get", "set", "reset"},
        id \in CamIds, code \in {0, capture_maxlen} }

\* the sum of two decimal numerals and a carry, digit by digit
RECURSIVE AddDecimal(_, _, _)
AddDecimal(a, b, c) ==
    LET Last(x) == IF x = <<>> THEN 0 ELSE DigitVal(x[Len(x)])
        Front(x) == IF x = <<>> THEN <<>> ELSE SubSeq(x, 1, Len(x) - 1)
        Digit(t) == Append(AddDecimal(Front(a), Front(b), t \div 10),
                           DigitChars[(t % 10) + 1])
    IN  IF a = <<>> /\ b = <<>>
        THEN IF c = 0 THEN <<>> ELSE << DigitChars[c + 1] >>
        ELSE Digit(Last(a) + Last(b) + c)

\* 2^32 in decimal
Two32String == <<"4", "2", "9", "4", "9", "6", "7", "2", "9", "6">>

\* the identifier a client leaves at the packet's default
NoneId == <<"N", "o", "n", "e">>

\* identifier strings that are not the decimal string of the identity h:
\* that string with a letter after it, with a blank before it, and the
\* decimal string of h + 2^32
IdentifierAliases(h) ==
    { U32ToString(h) \o <<"A">>,
      <<" ">> \o U32ToString(h),
      AddDecimal(U32ToString(h), Two32String, 0) }

\* requests that read the bit index of a camera under an identifier list
\* does not report
AliasRequests ==
    { NetPacket("get", id, adio_bit, <<>>, <<>>) :
        id \in {NoneId}
               \cup UNION { IdentifierAliases(camids[i]) : i \in 1..Len(camids) } }

\* every request of the model
Requests ==
    VerbRequests \cup GetRequests \cup SetRequests \cup StaleRequests
    \cup AliasRequests

(***************************************************************************)
(* What the vendor calls of one request return.                            *)
(***************************************************************************)
\* what allied_start_capture and allied_stop_capture return per camera,
\* for the cameras a step can call them on
VendorOutcomes(keys) ==
    { ve \in [DOMAIN imagecams -> VendorCodes] :
        \A k \in DOMAIN imagecams \ keys : ve[k] = VmbErrorSuccess }

AllSucceed ==
    [ ve    |-> [k \in DOMAIN imagecams |-> VmbErrorSuccess],
      set   |-> VmbErrorSuccess,
      get   |-> VmbErrorSuccess,
      get2  |-> VmbErrorSuccess,
      junk  |-> 0,
      crash |-> FALSE ]

\* the commands whose get or set calls the vendor SDK and returns a code
VendorCommands ==
    StrCommands \cup DblCommands \cup BoolCommands \cup IntCommands
    \cup PairCommands \cup {sensor_size, throughput_limit_range}

\* The outcomes of the vendor calls a request makes; a request that makes
\* none has one outcome.
Oracles(packet) ==
    CASE packet.cmd_type \in {"start_capture", "stop_capture"} ->
             { [AllSucceed EXCEPT !.ve = ve] :
                 ve \in VendorOutcomes({CamHash(packet.cam_id)}) }
      [] packet.cmd_type \in {"start_capture_all", "stop_capture_all"} ->
             { [AllSucceed EXCEPT !.ve = ve] :
                 ve \in VendorOutcomes(DOMAIN imagecams) }
      [] packet.cmd_type = "status"
           /\ (packet.cam_id = <<>> \/ Found(packet.cam_id)) ->
             {AllSucceed}
             \cup { [AllSucceed EXCEPT !.get = e, !.junk = j] :
                      e \in VendorFailures, j \in {0, 1} }
             \cup { [AllSucceed EXCEPT !.get2 = e, !.crash = c] :
                      e \in VendorFailures, c \in BOOLEAN }
      [] packet.cmd_type = "get" /\ packet.command \in VendorCommands
           /\ Found(packet.cam_id) ->
             {AllSucceed}
             \cup { [AllSucceed EXCEPT !.get = e, !.junk = j, !.crash = c] :
                      e \in VendorFailures, j \in {0, 1}, c \in BOOLEAN }
      [] packet.cmd_type = "set" /\ packet.command \in VendorCommands
           /\ packet.arguments # <<>> /\ Found(packet.cam_id) ->
             { [AllSucceed EXCEPT !.set = e1, !.get = e2] :
                 e1 \in VendorCodes, e2 \in VendorCodes }
      [] OTHER -> {AllSucceed}

(***************************************************************************)
(* Actions of main.                                                        *)
(***************************************************************************)
mainVars == << imagecams, capture_timelim, zsys_interrupted, which, reply, nrep,
               vmb, port0, calls, session, lowered, lastset, request >>

\* The history of the capturing flags after a step of main at time t that
\* leaves the handles cams and the ceiling timelim: a camera that was idle
\* and is capturing entered Capturing at t.
Sessions(cams, timelim, t) ==
    [k \in DOMAIN imagecams |->
        IF ~cams[k].capturing THEN -1
        ELSE IF ~imagecams[k].capturing THEN t
        ELSE IF timelim # capture_timelim THEN -1
        ELSE session[k]]

\* The history of the digital output bits after a step of main that leaves
\* the handles cams: the bit a camera held when it left Capturing, for as
\* long as the camera is idle and holds that bit; -1 otherwise.
Lowered(cams) ==
    [k \in DOMAIN imagecams |->
        IF cams[k].capturing THEN -1
        ELSE IF imagecams[k].capturing
        THEN (IF adio_dev THEN imagecams[k].adio_bit ELSE -1)
        ELSE IF cams[k].adio_bit # lowered[k] THEN -1
        ELSE lowered[k]]

\* The history of the set requests after main handled packet with the
\* result r: the reply, when it answers a set of a string, double, boolean
\* or integer command with success; nothing otherwise.
LastSet(packet, r) ==
    IF /\ ~r.crash
       /\ packet.cmd_type = "set"
       /\ packet.command \in StrCommands \cup DblCommands \cup BoolCommands
                                \cup IntCommands
       /\ r.err = VmbErrorSuccess
    THEN << [packet EXCEPT !.retcode = r.err, !.retargs = r.retargs] >>
    ELSE <<>>

\* a decoding that keeps the return values the client sent, which the code
\* does not do
retargs_keep(retargs) == retargs

\* packet.retargs.clear()
retargs_clear(retargs) == <<>>

\* whether the verb assigns its local vector to packet.retargs: status
\* always, get when the camera is found, set when it has an argument
AssignsRetargs(packet) ==
    \/ packet.cmd_type = "status"
    \/ packet.cmd_type = "get" /\ Found(packet.cam_id)
    \/ packet.cmd_type = "set" /\ packet.arguments # <<>>

\* The packet main sends back after it handled packet with the result r:
\* the packet it decoded, with retargs cleared and then assigned or pushed
\* to by the verb, and with retcode set.
ReplyOf(packet, r) ==
    [packet EXCEPT !.retcode = r.err,
                   !.retargs = IF AssignsRetargs(packet) THEN r.retargs
                               ELSE retargs_clear(packet.retargs) \o r.retargs]

startupVars == << hasher_state, vmbcaminfos, camids, adio_dev, camera_id >>

\* A client sends a request.  The socket is a reply socket: a client sends
\* its next request after it has the reply to the previous one.  What the
\* message holds is read when main receives it, and main sees a message
\* when it polls, so a message is taken to arrive while main polls.
ClientSend(maxreq) ==
    /\ pc = "poll"
    /\ nreq < maxreq
    /\ inbox = 0
    /\ inbox' = 1
    /\ nreq' = nreq + 1
    /\ UNCHANGED << pc, startupVars, mainVars, now, cb, nframes >>

\* SIGINT.  main reads the flag in the condition of the while loop only, so
\* the signal is taken at the point where the loop reads it.
Interrupt ==
    /\ pc = "poll"
    /\ ~zsys_interrupted
    /\ zsys_interrupted' = TRUE
    /\ UNCHANGED << pc, startupVars, imagecams, capture_timelim, now, which, inbox,
                    reply, nreq, nrep, vmb, port0, cb, nframes, calls, session,
                    lowered, lastset, request >>

\* a loop that goes on whatever the flag holds, which the code does not do
LoopForever == TRUE

\* while (!zsys_interrupted)
LoopCondition == ~zsys_interrupted

\* zpoller_wait returns, after dt ms, with the pipe if a message is waiting
\* and with NULL after the timeout; then the loop over imagecams stops the
\* cameras whose capture time exceeds the limit.
PollWake(maxtime) ==
    /\ pc = "poll"
    /\ LoopCondition
    /\ \E dt \in (IF inbox > 0 THEN {0, PollInterval} ELSE {PollInterval}),
          ve \in VendorOutcomes({k \in DOMAIN imagecams :
                                    running(imagecams[k])}) :
         \E W \in {CeilingCheck(World, KeyOrder(DOMAIN imagecams), now + dt,
                                 capture_timelim, ve, adio_dev)} :
             /\ now + dt <= maxtime * PollInterval
             /\ now' = now + dt
             /\ which' = (inbox > 0)
             /\ imagecams' = W.cams
             /\ vmb' = W.vm
             /\ port0' = W.port
             /\ calls' = W.calls
             /\ session' = Sessions(W.cams, capture_timelim, now + dt)
             /\ lowered' = Lowered(W.cams)
    /\ pc' = "woke"
    /\ reply' = <<>>
    /\ request' = <<>>
    /\ UNCHANGED << startupVars, capture_timelim, zsys_interrupted, inbox,
                    nreq, nrep, cb, nframes, lastset >>

\* which == NULL: continue
TimeoutContinue ==
    /\ pc = "woke"
    /\ ~which
    /\ pc' = "poll"
    /\ UNCHANGED << startupVars, mainVars, now, inbox, nreq, cb, nframes >>

\* zstr_recv of a message that decodes to one of the packets, the verb,
\* and zstr_send of the reply.  When the request uses an uninitialized
\* pointer and that faults, the process ends instead.
Dispatch(packets) ==
    /\ pc = "woke"
    /\ which
    /\ \E packet \in packets :
         \E o \in Oracles(packet) :
           \E r \in {Handle(packet, o, now)} :
               /\ imagecams' = r.cams
               /\ vmb' = r.vm
               /\ port0' = r.port
               /\ calls' = r.calls
               /\ capture_timelim' = r.lim
               /\ zsys_interrupted' = r.intr
               /\ session' = Sessions(r.cams, r.lim, now)
               /\ lowered' = Lowered(r.cams)
               /\ lastset' = LastSet(packet, r)
               /\ request' = IF r.crash THEN request ELSE <<packet>>
               /\ IF r.crash
                  THEN /\ pc' = "crashed"
                       /\ UNCHANGED << reply, nrep >>
                  ELSE /\ pc' = "poll"
                       /\ reply' = << ReplyOf(packet, r) >>
                       /\ nrep' = nrep + 1
    /\ inbox' = inbox - 1
    /\ UNCHANGED << startupVars, now, which, nreq, cb, nframes >>

\* zstr_recv of a message for which json::parse, or the conversion to
\* NetPacket, throws: nothing catches it
DispatchMalformed ==
    /\ pc = "woke"
    /\ which
    /\ pc' = "crashed"
    /\ inbox' = inbox - 1
    /\ UNCHANGED << startupVars, mainVars, now, nreq, cb, nframes >>

\* while (!zsys_interrupted) ends
LoopExit ==
    /\ pc = "poll"
    /\ ~LoopCondition
    /\ pc' = "cleanup"
    /\ UNCHANGED << startupVars, mainVars, now, inbox, nreq, cb, nframes >>

\* ImageCam::cleanup, called by close_camera from ~ImageCam: v is the
\* vendor's state of the camera
cleanup(cam, v) ==
    IF cam.opened
    THEN [cam |-> [cam EXCEPT !.opened = FALSE],
          v   |-> [v EXCEPT !.acquiring = FALSE, !.open = FALSE]]
    ELSE [cam |-> cam, v |-> v]

\* the cleanup of main: delete of every ImageCam
Cleanup ==
    /\ pc = "cleanup"
    /\ pc' = "done"
    /\ imagecams' = [k \in DOMAIN imagecams |-> cleanup(imagecams[k], vmb[k]).cam]
    /\ vmb' = [k \in DOMAIN imagecams |-> cleanup(imagecams[k], vmb[k]).v]
    /\ calls' = <<>>
    /\ UNCHANGED << startupVars, capture_timelim, zsys_interrupted, now, which, inbox,
                    reply, nreq, nrep, port0, cb, nframes, session, lowered,
                    lastset, request >>

(***************************************************************************)
(* ImageCam::Callback, on the vendor SDK's thread.  Nothing orders its     *)
(* reads and writes of frames, state and adio_bit with those of main, so   *)
(* it is taken in steps: the load of frames; the store of frames and the   *)
(* test; the store of state; the call of WriteBit_aDIO, whose arguments    *)
(* are the values read earlier or the values the fields hold by then.      *)
(***************************************************************************)
cbVars == << pc, startupVars, capture_timelim, zsys_interrupted, now, which, inbox,
             reply, nreq, nrep, vmb, calls, session, lowered, lastset,
             request >>

\* the SDK delivers a frame: self->frames is loaded
FrameArrive(k) ==
    /\ pc \in {"poll", "woke"}
    /\ vmb[k].acquiring
    /\ cb[k].pc = "idle"
    /\ nframes < MaxFrames
    /\ nframes' = nframes + 1
    /\ cb' = [cb EXCEPT ![k].pc = "count", ![k].r_frames = imagecams[k].frames]
    /\ UNCHANGED << cbVars, imagecams, port0 >>

\* self->frames++ stores; the test of adio_hdl and adio_bit
CallbackCount(k) ==
    /\ cb[k].pc = "count"
    /\ imagecams' = [imagecams EXCEPT ![k].frames = cb[k].r_frames + 1]
    /\ cb' = IF adio_dev /\ imagecams[k].adio_bit >= 0
             THEN [cb EXCEPT ![k].pc = "toggle",
                             ![k].r_state = imagecams[k].state,
                             ![k].r_bit = imagecams[k].adio_bit]
             ELSE [cb EXCEPT ![k].pc = "idle"]
    /\ UNCHANGED << cbVars, port0, nframes >>

\* self->state = ~self->state
CallbackToggle(k) ==
    /\ cb[k].pc = "toggle"
    /\ imagecams' = [imagecams EXCEPT ![k].state = Invert(cb[k].r_state)]
    /\ cb' = [cb EXCEPT ![k].pc = "write", ![k].r_state = Invert(cb[k].r_state)]
    /\ UNCHANGED << cbVars, port0, nframes >>

\* WriteBit_aDIO(self->adio_hdl, 0, self->adio_bit, self->state)
CallbackWrite(k) ==
    /\ cb[k].pc = "write"
    /\ \E bit \in {cb[k].r_bit, imagecams[k].adio_bit},
          value \in {cb[k].r_state, imagecams[k].state} :
         port0' = WriteBit_aDIO(port0, bit, value)
    /\ cb' = [cb EXCEPT ![k].pc = "idle", ![k].r_frames = 0, ![k].r_state = 0,
                        ![k].r_bit = -1]
    /\ UNCHANGED << cbVars, imagecams, nframes >>

Callback(k) ==
    \/ FrameArrive(k)
    \/ CallbackCount(k)
    \/ CallbackToggle(k)
    \/ CallbackWrite(k)

(***************************************************************************)
(* Specifications.                                                         *)
(***************************************************************************)
\* the capture engine: the verbs, the ceiling and the clock
Next ==
    \/ ClientSend(MaxRequests)
    \/ Interrupt
    \/ PollWake(MaxTime)
    \/ TimeoutContinue
    \/ Dispatch(EngineRequests)
    \/ DispatchMalformed
    \/ LoopExit
    \/ Cleanup

Spec == Init /\ [][Next]_vars

\* main's thread keeps running: once the loop condition is false the loop
\* ends, and the cleanup follows
SpecFair == Spec /\ WF_vars(LoopExit) /\ WF_vars(Cleanup)

\* the registry build
NextStartup ==
    \/ EnumerateCamera
    \/ StartupDone

SpecStartup == InitStartup /\ [][NextStartup]_vars

\* the frame callback beside the capture sessions
NextFrames ==
    \/ ClientSend(MaxFrameRequests)
    \/ PollWake(ShortTime)
    \/ TimeoutContinue
    \/ Dispatch(FrameRequests)
    \/ \E k \in DOMAIN imagecams : Callback(k)

SpecFrames == Init /\ [][NextFrames]_vars

(***************************************************************************)
(* Capture sessions without interference: clients start idle cameras only  *)
(* and every frame callback of a capturing camera runs to completion       *)
(* between two steps of main.                                              *)
(***************************************************************************)
\* the requests of FrameRequests that start no camera that is capturing
SessionRequests ==
    { r \in FrameRequests :
        /\ r.cmd_type = "start_capture"
               => ~imagecams[CamHash(r.cam_id)].capturing
        /\ r.cmd_type = "start_capture_all"
               => \A k \in DOMAIN imagecams : ~imagecams[k].capturing }

\* ImageCam::Callback, from its first statement to its last
CallbackWhole(k) ==
    /\ pc \in {"poll", "woke"}
    /\ vmb[k].acquiring
    /\ imagecams[k].capturing
    /\ cb[k].pc = "idle"
    /\ nframes < MaxFrames
    /\ nframes' = nframes + 1
    /\ IF adio_dev /\ imagecams[k].adio_bit >= 0
       THEN /\ imagecams' = [imagecams EXCEPT ![k].frames = @ + 1,
                                               ![k].state = Invert(@)]
            /\ port0' = WriteBit_aDIO(port0, imagecams[k].adio_bit,
                                      Invert(imagecams[k].state))
       ELSE /\ imagecams' = [imagecams EXCEPT ![k].frames = @ + 1]
            /\ port0' = port0
    /\ UNCHANGED << cbVars, cb >>

NextSessions ==
    \/ ClientSend(MaxSessionRequests)
    \/ PollWake(ShortTime)
    \/ TimeoutContinue
    \/ Dispatch(SessionRequests)
    \/ \E k \in DOMAIN imagecams : CallbackWhole(k)

SpecSessions == Init /\ [][NextSessions]_vars

\* every verb and every command
NextCommands ==
    \/ ClientSend(MaxRequests)
    \/ PollWake(CommandTime)
    \/ Dispatch(Requests)
    \/ DispatchMalformed

SpecCommands == Init /\ [][NextCommands]_vars

(***************************************************************************)
(* Properties.                                                             *)
(***************************************************************************)
\* a step in which zpoller_wait returns and the ceiling check runs
IsWake == pc = "poll" /\ pc' = "woke"

\* a step in which main handles a request and sends the reply
IsReply == pc = "woke" /\ pc' = "poll" /\ which

\* C1: on every wake of the loop, before a request of that wake is
\* dispatched, every camera that is capturing with now - start timestamp
\* above the ceiling is stopped (capturing false, start timestamp cleared),
\* and every other camera, capturing within the ceiling or idle, is left as
\* it was; so no request is dispatched while a camera is past the ceiling.
C1_CeilingCheckOnWake ==
    [][ /\ IsWake =>
            \A k \in DOMAIN imagecams :
                IF /\ imagecams[k].capturing
                   /\ now' - imagecams[k].capture_start_time > capture_timelim
                THEN /\ ~imagecams'[k].capturing
                     /\ imagecams'[k].capture_start_time = -1
                ELSE imagecams'[k] = imagecams[k]
        /\ pc = "woke" =>
            \A k \in DOMAIN imagecams :
                ~( /\ imagecams[k].capturing
                   /\ now - imagecams[k].capture_start_time > capture_timelim )
      ]_vars

\* the ceiling check has just stopped one camera and has left another one,
\* started later, capturing
C1_Witness ==
    /\ pc = "woke"
    /\ \E i \in 1..Len(calls) : calls[i].call = "allied_stop_capture"
    /\ \E k, j \in DOMAIN imagecams :
          /\ ~imagecams[k].capturing
          /\ imagecams[j].capturing
          /\ now - imagecams[j].capture_start_time <= capture_timelim
          /\ now - imagecams[j].capture_start_time > 0

\* the reply main sent in the latest pass of the loop
Replied == reply # <<>>
LastReply == reply[1]

\* C3: a start_capture or start_capture_all that reaches a camera already
\* capturing makes no vendor start call for it and leaves its frame counter
\* and start timestamp as they were.
C3_RedundantStartIgnored ==
    [][ ( /\ IsReply
          /\ reply' # <<>>
          /\ reply'[1].cmd_type \in {"start_capture", "start_capture_all"} )
        => \A k \in DOMAIN imagecams :
              imagecams[k].capturing =>
                /\ imagecams'[k].frames = imagecams[k].frames
                /\ imagecams'[k].capture_start_time = imagecams[k].capture_start_time
                /\ \A i \in 1..Len(calls') :
                      ~( calls'[i].call = "allied_start_capture" /\ calls'[i].cam = k )
      ]_vars

AddressesCamera(r) ==
    \/ r.cmd_type \in {"get", "set", "start_capture", "stop_capture"}
    \/ r.cmd_type = "status" /\ r.cam_id # <<>>

\* C5, as stated: every get, set, start_capture, stop_capture or
\* camera-addressed status request whose camera identifier is not a key of
\* the registry is answered with not-found, whatever its command code and
\* argument list.
C5_UnregisteredNotFound ==
    (Replied /\ AddressesCamera(LastReply) /\ ~Found(LastReply.cam_id))
        => LastReply.retcode = VmbErrorNotFound

\* C5, amended: every get, set with at least one argument, start_capture,
\* stop_capture or camera-addressed status request whose camera identifier
\* does not resolve to a key of the registry is answered with not-found and
\* no return values; a set with no argument is answered with no-data.
C5_UnregisteredNotFoundUnlessNoData ==
    (Replied /\ AddressesCamera(LastReply) /\ ~Found(LastReply.cam_id))
        => IF LastReply.cmd_type = "set" /\ LastReply.arguments = <<>>
           THEN LastReply.retcode = VmbErrorNoData
           ELSE LastReply.retcode = VmbErrorNotFound /\ LastReply.retargs = <<>>

\* a get of capture_maxlen and a set of it with an argument, for a camera
\* identifier that is not in the registry, have been answered
C5_Witness ==
    /\ Replied
    /\ LastReply.cmd_type = "set"
    /\ LastReply.command = capture_maxlen
    /\ LastReply.arguments # <<>>
    /\ LastReply.cam_id = <<"7">>
    /\ LastReply.retcode = VmbErrorNotFound
    /\ nrep = 2

\* C6: a set request with an empty argument list is answered with no-data
\* and no return values for every command code, makes no vendor call, and
\* leaves every camera's capturing flag, start timestamp, frame counter and
\* digital output bit index, and the ceiling, unchanged.
C6_EmptySetNoData ==
    [][ ( /\ IsReply
          /\ reply' # <<>>
          /\ reply'[1].cmd_type = "set"
          /\ reply'[1].arguments = <<>> )
        => /\ reply'[1].retcode = VmbErrorNoData
           /\ reply'[1].retargs = <<>>
           /\ calls' = <<>>
           /\ vmb' = vmb
           /\ capture_timelim' = capture_timelim
           /\ \A k \in DOMAIN imagecams :
                 /\ imagecams'[k].capturing = imagecams[k].capturing
                 /\ imagecams'[k].capture_start_time = imagecams[k].capture_start_time
                 /\ imagecams'[k].frames = imagecams[k].frames
                 /\ imagecams'[k].adio_bit = imagecams[k].adio_bit
      ]_vars

\* a set with no argument has been answered while a camera is capturing
C6_Witness ==
    /\ Replied
    /\ LastReply.cmd_type = "set"
    /\ LastReply.arguments = <<>>
    /\ LastReply.retcode = VmbErrorNoData
    /\ Found(LastReply.cam_id)
    /\ imagecams[CamHash(LastReply.cam_id)].capturing

\* C7: every request the loop receives is answered with exactly one reply,
\* sent before the loop polls or receives again: no request is answered
\* twice and none is left unanswered.
C7_ExactlyOneReply ==
    [][ /\ (pc = "woke" /\ which /\ pc' # pc)
            => (pc' = "poll" /\ nrep' = nrep + 1 /\ Len(reply') = 1)
        /\ nrep' # nrep => (pc = "woke" /\ which /\ inbox' = inbox - 1)
      ]_vars

\* C8: a list request returns exactly the identities computed at startup,
\* one per enumerated camera in enumeration order, whatever get, set,
\* start, stop, status and ceiling-check steps came before.
C8_ListIsStartupIdentities ==
    (Replied /\ LastReply.cmd_type = "list")
        => /\ LastReply.retcode = VmbErrorSuccess
           /\ LastReply.retargs =
                  [i \in 1..Len(vmbcaminfos) |->
                      U32ToString(get_hash(hasher_state, vmbcaminfos[i].idstr))]

\* list has been answered with two identities after a capture was started
\* and the clock moved, in a run whose registry holds one camera
C8_Witness ==
    /\ Replied
    /\ LastReply.cmd_type = "list"
    /\ Len(LastReply.retargs) = 2
    /\ Cardinality(DOMAIN imagecams) = 1
    /\ \E k \in DOMAIN imagecams : imagecams[k].capturing
    /\ now > 0

\* C9: whenever a camera with an assigned digital output bit leaves
\* Capturing, its bit is driven low, and the bit stays low for as long as the
\* camera is idle, under every interleaving of the frame callback with the
\* loop.  (A bit that another camera also holds is left out.)
C9_BitLowWhileIdle ==
    \A k \in DOMAIN imagecams :
        ( /\ lowered[k] \in PortBits
          /\ ~imagecams[k].capturing
          /\ imagecams[k].adio_bit = lowered[k]
          /\ \A j \in DOMAIN imagecams \ {k} :
                imagecams[j].adio_bit # lowered[k] /\ cb[j].r_bit # lowered[k] )
        => port0[lowered[k]] = 0

\* C10: if the vendor set call of a set request fails, the reply's result
\* code is that vendor error code, for every settable command.
C10_SetErrorPropagated ==
    (Replied /\ LastReply.cmd_type = "set")
        => \A i \in 1..Len(calls) :
              (calls[i].call = "allied_set" /\ calls[i].ret # VmbErrorSuccess)
                  => LastReply.retcode = calls[i].ret

\* C2: while the ceiling is not changed, no camera stays in Capturing for
\* longer than the ceiling plus one polling interval, whatever requests
\* arrive during the session.
C2_BoundedCapture ==
    \A k \in DOMAIN imagecams :
        (imagecams[k].capturing /\ session[k] >= 0)
            => now - session[k] <= capture_timelim + PollInterval

\* what a reply carries for the value a camera holds for a command
AppliedValue(code, k) ==
    LET Shown(x) ==
            CASE code \in StrCommands -> <<x>>
              [] code \in DblCommands -> <<FormatF6(x)>>
              [] code \in BoolCommands -> <<BoolString(x)>>
              [] code \in IntCommands -> <<to_string(x)>>
              [] code \in PairCommands -> <<to_string(x[1]), to_string(x[2])>>
    IN  Shown(vmb[k].feat[FeatureOf(code)])

\* the commands a set writes to the camera
ShapeCommands ==
    StrCommands \cup DblCommands \cup BoolCommands \cup IntCommands \cup PairCommands

\* C11: a set of a string, integer, double, boolean or tuple command that is
\* answered with success returns the value the camera holds after the write
\* (the read-back), not the requested value.
C11_SetReturnsReadBack ==
    ( /\ Replied
      /\ LastReply.cmd_type = "set"
      /\ LastReply.command \in ShapeCommands
      /\ LastReply.retcode = VmbErrorSuccess )
    => LastReply.retargs = AppliedValue(LastReply.command, CamHash(LastReply.cam_id))

\* a set of throughput_limit with 5000 has been answered with the value the
\* camera brought into its range
C11_Witness ==
    /\ Replied
    /\ LastReply.cmd_type = "set"
    /\ LastReply.command = throughput_limit
    /\ LastReply.arguments = << <<"5", "0", "0", "0">> >>
    /\ LastReply.retcode = VmbErrorSuccess
    /\ LastReply.retargs = << <<"1", "0", "0", "0">> >>
    /\ \E i \in 1..Len(calls) :
          calls[i].call = "allied_set" /\ calls[i].ret = VmbErrorSuccess

\* C12: for every string, integer, double and boolean command and every
\* registered camera, a get that succeeds right after a successful set of
\* the same command on the same camera returns the value the set's reply
\* returned.
C12_SetThenGetRoundTrip ==
    [][ ( /\ IsReply
          /\ reply' # <<>>
          /\ reply'[1].cmd_type = "get"
          /\ reply'[1].retcode = VmbErrorSuccess
          /\ lastset # <<>>
          /\ lastset[1].command = reply'[1].command
          /\ CamHash(lastset[1].cam_id) = CamHash(reply'[1].cam_id) )
        => reply'[1].retargs = lastset[1].retargs
      ]_vars

\* a get of acq_framerate_auto has been answered right after a set of it
\* with "TRUE" was answered with success
C12_Witness ==
    /\ Replied
    /\ LastReply.cmd_type = "get"
    /\ LastReply.command = acq_framerate_auto
    /\ LastReply.retcode = VmbErrorSuccess
    /\ LastReply.retargs = <<True>>
    /\ nrep = 2
    /\ \E k \in DOMAIN imagecams : vmb[k].feat.acq_framerate_auto

\* C13: a get of camera_info on a registered camera succeeds and returns
\* exactly one value, the identity block of that camera's descriptor.
C13_CameraInfoOnly ==
    ( /\ Replied
      /\ LastReply.cmd_type = "get"
      /\ LastReply.command = camera_info
      /\ Found(LastReply.cam_id) )
    => /\ LastReply.retcode = VmbErrorSuccess
       /\ LastReply.retargs =
              << InfoToString(imagecams[CamHash(LastReply.cam_id)].info) >>

\* the command codes the switch of the get verb has a case for
GetTable ==
    ShapeCommands \cup {frame_size, sensor_size, throughput_limit_range,
                        camera_info, adio_bit, capture_maxlen}

\* the command codes the switch of the set verb has a case for
SetTable == ShapeCommands \cup {adio_bit, capture_maxlen}

C15_TupleArityWrongType ==
    [][ ( /\ IsReply
          /\ reply' # <<>>
          /\ reply'[1].cmd_type = "set"
          /\ reply'[1].command \in PairCommands
          /\ Found(reply'[1].cam_id)
          /\ Len(reply'[1].arguments) # 2 )
        => /\ reply'[1].retcode = VmbErrorWrongType
           /\ reply'[1].retargs = <<>>
           /\ calls' = <<>>
      ]_vars

\* C15, amended: a set of image_size or image_ofst on a registered camera
\* whose argument count is 1 or more than 2 is answered with wrong-type and
\* no return values, and makes no vendor call; with no argument it is
\* answered with no-data, also without a vendor call.
C15_TupleArityWrongTypeOrNoData ==
    [][ ( /\ IsReply
          /\ reply' # <<>>
          /\ reply'[1].cmd_type = "set"
          /\ reply'[1].command \in PairCommands
          /\ Found(reply'[1].cam_id)
          /\ Len(reply'[1].arguments) # 2 )
        => /\ reply'[1].retcode =
                  IF reply'[1].arguments = <<>> THEN VmbErrorNoData
                  ELSE VmbErrorWrongType
           /\ reply'[1].retargs = <<>>
           /\ calls' = <<>>
           /\ vmb' = vmb
      ]_vars

\* a set of image_size with three arguments has been answered with
\* wrong-type for a registered camera
C15_Witness ==
    /\ Replied
    /\ LastReply.cmd_type = "set"
    /\ LastReply.command = image_size
    /\ Len(LastReply.arguments) = 3
    /\ Found(LastReply.cam_id)
    /\ LastReply.retcode = VmbErrorWrongType
    /\ calls = <<>>

\* C16: a get of capture_maxlen, or a set of it that carries an argument,
\* succeeds whatever camera identifier the request carries, an empty or an
\* unregistered one included.
C16_CeilingIgnoresCamera ==
    ( /\ Replied
      /\ LastReply.cmd_type \in {"get", "set"}
      /\ LastReply.command = capture_maxlen
      /\ LastReply.cmd_type = "set" => LastReply.arguments # <<>>
      /\ ~Found(LastReply.cam_id) )
    => LastReply.retcode = VmbErrorSuccess

\* the calls of the given name that main made in its latest step
CallsOf(cs, name) == { i \in 1..Len(cs) : cs[i].call = name }

\* C17: when allied_start_capture fails for a camera during start_capture
\* or start_capture_all, that camera is not capturing afterwards, its
\* start timestamp is unset, and the reply carries the vendor's code.
C17_FailedStartStaysIdle ==
    [][ ( /\ IsReply
          /\ reply' # <<>>
          /\ reply'[1].cmd_type \in {"start_capture", "start_capture_all"} )
        => \A i \in CallsOf(calls', "allied_start_capture") :
               calls'[i].ret # VmbErrorSuccess
               => /\ ~imagecams[calls'[i].cam].capturing
                  /\ ~imagecams'[calls'[i].cam].capturing
                  /\ imagecams'[calls'[i].cam].capture_start_time = -1
                  /\ reply'[1].retcode = calls'[i].ret
      ]_vars

\* start_capture has been answered with the code of a failed
\* allied_start_capture and the camera is idle
C17_Witness ==
    /\ Replied
    /\ LastReply.cmd_type = "start_capture"
    /\ Found(LastReply.cam_id)
    /\ LastReply.retcode # VmbErrorSuccess
    /\ \E i \in CallsOf(calls, "allied_start_capture") :
           /\ calls[i].cam = CamHash(LastReply.cam_id)
           /\ calls[i].ret = LastReply.retcode
    /\ ~imagecams[CamHash(LastReply.cam_id)].capturing

\* C18: after stop_capture on a registered camera the camera is idle and
\* its start timestamp is cleared, whether allied_stop_capture succeeded or
\* failed, and the reply carries the code of that call (success when the
\* camera was not capturing and no call was made).
C18_StopAlwaysIdle ==
    [][ ( /\ IsReply
          /\ reply' # <<>>
          /\ reply'[1].cmd_type = "stop_capture"
          /\ Found(reply'[1].cam_id) )
        => /\ ~imagecams'[CamHash(reply'[1].cam_id)].capturing
           /\ imagecams'[CamHash(reply'[1].cam_id)].capture_start_time = -1
           /\ \A i \in CallsOf(calls', "allied_stop_capture") :
                  /\ calls'[i].cam = CamHash(reply'[1].cam_id)
                  /\ reply'[1].retcode = calls'[i].ret
           /\ CallsOf(calls', "allied_stop_capture") = {}
                  => reply'[1].retcode = VmbErrorSuccess
           /\ imagecams[CamHash(reply'[1].cam_id)].capturing
                  => CallsOf(calls', "allied_stop_capture") # {}
      ]_vars

\* stop_capture has been answered with the code of a failed
\* allied_stop_capture and the camera is idle
C18_Witness ==
    /\ Replied
    /\ LastReply.cmd_type = "stop_capture"
    /\ Found(LastReply.cam_id)
    /\ LastReply.retcode # VmbErrorSuccess
    /\ \E i \in CallsOf(calls, "allied_stop_capture") :
           /\ calls[i].cam = CamHash(LastReply.cam_id)
           /\ calls[i].ret = LastReply.retcode
    /\ ~imagecams[CamHash(LastReply.cam_id)].capturing
    /\ imagecams[CamHash(LastReply.cam_id)].capture_start_time = -1

\* the calls of the given name that main made in its latest step, in the
\* order it made them
MadeCalls(cs, name) == SelectSeq(cs, LAMBDA c : c.call = name)

\* what a step of start_capture_all or stop_capture_all did, where made is
\* the vendor calls of the step and visited is the cameras that are in the
\* state the operation leaves them in: the calls were made in registry order
\* and only the last can have failed; on success every camera was visited;
\* on failure the reply carries the code of the failed call, the cameras
\* before that camera were visited, and those after it are unchanged.
BroadcastOutcome(made, visited) ==
    LET order == KeyOrder(DOMAIN imagecams)
    IN  /\ \A i, j \in 1..Len(made) : i < j => U32Less(made[i].cam, made[j].cam)
        /\ \A i \in 1..Len(made) : i < Len(made) => made[i].ret = VmbErrorSuccess
        /\ IF reply'[1].retcode = VmbErrorSuccess
           THEN /\ \A k \in DOMAIN imagecams : k \in visited
                /\ \A i \in 1..Len(made) : made[i].ret = VmbErrorSuccess
           ELSE /\ made # <<>>
                /\ made[Len(made)].ret = reply'[1].retcode
                /\ \E i \in 1..Len(order) :
                       /\ made[Len(made)].cam = order[i]
                       /\ \A j \in 1..Len(order) :
                              j < i => order[j] \in visited
                       /\ \A j \in 1..Len(order) :
                              j > i => /\ imagecams'[order[j]] = imagecams[order[j]]
                                       /\ vmb'[order[j]] = vmb[order[j]]
                                       /\ \A n \in 1..Len(calls') :
                                              calls'[n].cam # order[j]

\* camera k was started in this step: it is capturing with a start
\* timestamp, and the vendor was called for it if it was idle
StartVisited(k) ==
    /\ imagecams'[k].capturing
    /\ imagecams'[k].capture_start_time >= 0
    /\ ~imagecams[k].capturing
           => \E i \in CallsOf(calls', "allied_start_capture") :
                  calls'[i].cam = k /\ calls'[i].ret = VmbErrorSuccess

\* camera k was stopped in this step: it is idle with no start timestamp,
\* and the vendor was called for it if it was capturing
StopVisited(k) ==
    /\ ~imagecams'[k].capturing
    /\ imagecams'[k].capture_start_time = -1
    /\ imagecams[k].capturing
           => \E i \in CallsOf(calls', "allied_stop_capture") :
                  calls'[i].cam = k /\ calls'[i].ret = VmbErrorSuccess

\* C19: start_capture_all and stop_capture_all visit the cameras in
\* registry order and stop at the first camera that fails: the reply carries
\* that failure's code, the cameras before it keep their new state, the
\* cameras after it are not touched; when no camera fails the reply is
\* success and every camera has been visited.
C19_BroadcastStopsAtFirstFailure ==
    [][ /\ ( /\ IsReply
             /\ reply' # <<>>
             /\ reply'[1].cmd_type = "start_capture_all" )
           => BroadcastOutcome(MadeCalls(calls', "allied_start_capture"),
                               {k \in DOMAIN imagecams : StartVisited(k)})
        /\ ( /\ IsReply
             /\ reply' # <<>>
             /\ reply'[1].cmd_type = "stop_capture_all" )
           => BroadcastOutcome(MadeCalls(calls', "allied_stop_capture"),
                               {k \in DOMAIN imagecams : StopVisited(k)})
      ]_vars

\* start_capture_all has been answered with the code of a failed start of
\* the second camera of the registry, and the first camera is capturing
C19_Witness ==
    /\ Replied
    /\ LastReply.cmd_type = "start_capture_all"
    /\ LastReply.retcode # VmbErrorSuccess
    /\ Cardinality(DOMAIN imagecams) = 2
    /\ Len(MadeCalls(calls, "allied_start_capture")) = 2
    /\ calls[Len(calls)].ret = LastReply.retcode
    /\ imagecams[KeyOrder(DOMAIN imagecams)[1]].capturing
    /\ ~imagecams[KeyOrder(DOMAIN imagecams)[2]].capturing

\* the latest reply answers a quit request
QuitReplied == Replied /\ LastReply.cmd_type = "quit"

\* C20: a quit request is answered with a reply; after that reply main
\* receives and dispatches no further request (it does not poll, receive or
\* reply again, and a message that arrives stays in the socket), and the
\* loop ends.
C20_QuitEndsLoop ==
    /\ [][ ( pc = "woke" /\ ~zsys_interrupted /\ zsys_interrupted' )
            => /\ pc' = "poll"
               /\ reply' # <<>>
               /\ reply'[1].cmd_type = "quit"
               /\ reply'[1].retcode = VmbErrorSuccess
               /\ nrep' = nrep + 1
          ]_vars
    /\ [][ QuitReplied
            => /\ pc' \in {"poll", "cleanup", "done"}
               /\ reply' = reply
               /\ nrep' = nrep
               /\ inbox' >= inbox
               /\ zsys_interrupted'
          ]_vars
    /\ QuitReplied ~> (pc = "done")

\* quit has been answered, a further request is waiting in the socket, and
\* main has ended
C20_Witness ==
    /\ QuitReplied
    /\ LastReply.retcode = VmbErrorSuccess
    /\ inbox > 0
    /\ pc = "done"

\* C21: when main has ended, after quit or an interrupt, the vendor's
\* capture is stopped and the vendor's session is closed for every camera
\* of the registry.
C21_ShutdownClosesCameras ==
    pc = "done"
    => \A k \in DOMAIN imagecams : ~vmb[k].acquiring /\ ~vmb[k].open

\* C22: the accesses of main and of the frame callback to the frame counter
\* and to the toggle state are serialized: when the callback stores the
\* counter it loaded and incremented, or the state it loaded and inverted,
\* the field still holds the value the callback loaded, so that no write of
\* main in between is overwritten and no increment or toggle is lost.
C22_CallbackSerialized ==
    [][ \A k \in DOMAIN imagecams :
          /\ ( cb[k].pc = "count" /\ cb'[k].pc # "count" )
                 => imagecams[k].frames = cb[k].r_frames
          /\ ( cb[k].pc = "toggle" /\ cb'[k].pc = "write" )
                 => imagecams[k].state = cb[k].r_state
      ]_vars

\* a step of the frame callback
IsCallbackStep == cb' # cb

\* C23: a frame arrival stores the frame counter it read plus one and, when
\* the digital I/O device is open and the camera has a bit, stores the
\* complement of the state it read and writes the port; without a device
\* or a bit it changes neither the state nor the port.  No step of it
\* changes a capturing flag, a start timestamp, a bit index or the ceiling.
C23_FrameArrivalEffect ==
    [][ IsCallbackStep
        => /\ capture_timelim' = capture_timelim
           /\ \A k \in DOMAIN imagecams :
                 /\ imagecams'[k].capturing = imagecams[k].capturing
                 /\ imagecams'[k].capture_start_time = imagecams[k].capture_start_time
                 /\ imagecams'[k].adio_bit = imagecams[k].adio_bit
                 /\ ( cb[k].pc = "count" /\ cb'[k].pc # "count" )
                        => /\ imagecams'[k].frames = cb[k].r_frames + 1
                           /\ cb'[k].pc = "toggle"
                                  <=> (adio_dev /\ imagecams[k].adio_bit >= 0)
                           /\ imagecams'[k].state = imagecams[k].state
                           /\ port0' = port0
                 /\ ( cb[k].pc = "toggle" /\ cb'[k].pc # "toggle" )
                        => /\ imagecams'[k].state + cb[k].r_state = 255
                           /\ imagecams'[k].frames = imagecams[k].frames
                           /\ cb'[k].pc = "write"
                 /\ ( cb[k].pc = "write" /\ cb'[k].pc # "write" )
                        => imagecams'[k] = imagecams[k]
                 /\ cb'[k] = cb[k] => imagecams'[k] = imagecams[k]
           /\ port0' # port0 => \E k \in DOMAIN imagecams :
                                   cb[k].pc = "write" /\ cb'[k].pc = "idle"
      ]_vars

\* the callback of a capturing camera with a bit has counted a second frame
\* and inverted the state, and is about to write the port
C23_Witness ==
    \E k \in DOMAIN imagecams :
        /\ cb[k].pc = "write"
        /\ imagecams[k].capturing
        /\ imagecams[k].adio_bit >= 0
        /\ imagecams[k].frames = 2
        /\ imagecams[k].state = 0

\* C24: within a run, descriptors with equal identifier strings get the
\* same identity whatever strings were hashed before or between them, and
\* no step changes the hasher's table.
C24_HashDeterministic ==
    /\ [] ( \A i, j \in 1..Len(camids) :
               vmbcaminfos[i].idstr = vmbcaminfos[j].idstr
               => camids[i] = camids[j] )
    /\ [][ hasher_state' = hasher_state ]_vars

\* the first and the third descriptor have the same identifier string and
\* the same identity; the second, hashed between them, has another string
\* and another identity
C24_Witness ==
    /\ Len(camids) = 3
    /\ vmbcaminfos[1].idstr = vmbcaminfos[3].idstr
    /\ vmbcaminfos[1] # vmbcaminfos[3]
    /\ vmbcaminfos[2].idstr # vmbcaminfos[1].idstr
    /\ camids[1] = camids[3]
    /\ camids[2] # camids[1]

\* the latest reply answers a status request that succeeded
StatusReplied ==
    /\ Replied
    /\ LastReply.cmd_type = "status"
    /\ LastReply.retcode = VmbErrorSuccess

\* the reply to a status request for one registered camera holds three
\* values, the first of which is "True" exactly when the camera is capturing
StatusOfOne ==
    ( StatusReplied /\ LastReply.cam_id # <<>> /\ Found(LastReply.cam_id) )
    => /\ Len(LastReply.retargs) = 3
       /\ LastReply.retargs[1] =
              BoolString(imagecams[CamHash(LastReply.cam_id)].capturing)

\* C25, as stated: a status request returns three values per camera it
\* covers, in the order capturing flag, temperature source, temperature,
\* for one camera and for every registered camera when cam_id is empty; the
\* flag is "True" exactly when the camera is capturing.
C25_StatusThreeValues ==
    /\ StatusOfOne
    /\ ( StatusReplied /\ LastReply.cam_id = <<>> )
       => LET order == KeyOrder(DOMAIN imagecams)
          IN  /\ Len(LastReply.retargs) = 3 * Len(order)
              /\ \A i \in 1..Len(order) :
                     LastReply.retargs[3 * (i - 1) + 1] =
                         BoolString(imagecams[order[i]].capturing)

\* C25, amended: for one registered camera a status request returns three
\* values (capturing flag, temperature source, temperature); with an empty
\* cam_id it returns five values per registered camera, in registry order:
\* the identity, the identifier string, and the same three.  The flag is
\* "True" exactly when the camera is capturing.
C25_StatusThreeOrFiveValues ==
    /\ StatusOfOne
    /\ ( StatusReplied /\ LastReply.cam_id = <<>> )
       => LET order == KeyOrder(DOMAIN imagecams)
          IN  /\ Len(LastReply.retargs) = 5 * Len(order)
              /\ \A i \in 1..Len(order) :
                     /\ LastReply.retargs[5 * (i - 1) + 1] = U32ToString(order[i])
                     /\ LastReply.retargs[5 * (i - 1) + 2] =
                            imagecams[order[i]].info.idstr
                     /\ LastReply.retargs[5 * (i - 1) + 3] =
                            BoolString(imagecams[order[i]].capturing)

\* a status request with an empty cam_id has been answered for two
\* registered cameras, one of them capturing
C25_Witness ==
    /\ StatusReplied
    /\ LastReply.cam_id = <<>>
    /\ Cardinality(DOMAIN imagecams) = 2
    /\ Len(LastReply.retargs) = 10
    /\ \E k \in DOMAIN imagecams : imagecams[k].capturing
    /\ \E k \in DOMAIN imagecams : ~imagecams[k].capturing

\* C26: every reply carries the verb, the camera identifier and the
\* command code of its request, and its return values are those that
\* handling the request produces: they are the return values of the reply
\* to the same request sent without return values, so that nothing the
\* request carried in retargs is echoed.
C26_ReplyEchoesRequest ==
    [][ ( IsReply /\ reply' # <<>> )
        => /\ request' # <<>>
           /\ reply'[1].cmd_type = request'[1].cmd_type
           /\ reply'[1].cam_id = request'[1].cam_id
           /\ reply'[1].command = request'[1].command
           /\ \E p \in {[request'[1] EXCEPT !.retargs = <<>>]} :
                 \E o \in Oracles(p) :
                   \E r \in {Handle(p, o, now)} :
                       /\ ~r.crash
                       /\ reply'[1].retcode = r.err
                       /\ reply'[1].retargs = r.retargs
      ]_vars

\* a list request that carried a return value has been answered with the
\* identities only
C26_Witness ==
    /\ Replied
    /\ request # <<>>
    /\ request[1].cmd_type = "list"
    /\ request[1].retargs # <<>>
    /\ LastReply.cmd_type = "list"
    /\ LastReply.retargs = ListOf(camids)
    /\ LastReply.retargs # <<>>

\* C27: every handle of the registry has an open vendor session and
\* belongs to an enumerated camera that passes the filter of the -c option
\* (every enumerated camera passes when the option is empty): the registry
\* holds no handle whose allied_open_camera failed.
C27_RegistryHandlesOpen ==
    \A k \in DOMAIN imagecams :
        /\ vmb[k].open
        /\ imagecams[k].handle
        /\ \E i \in 1..Len(camids) :
               /\ camids[i] = k
               /\ imagecams[k].info = vmbcaminfos[i]
               /\ camera_id = <<>> \/ camera_id = vmbcaminfos[i].idstr

\* allied_open_camera failed for the second camera after the first was
\* registered: the process has ended with the first handle only
C27_Witness ==
    /\ pc = "aborted"
    /\ Len(camids) = 2
    /\ DOMAIN imagecams = {camids[1]}
    /\ camids[2] # camids[1]
    /\ vmb[camids[1]].open

\* C28: when the enumerated cameras have pairwise distinct identifier
\* strings, list returns pairwise distinct identities, and once the
\* registry is built every enumerated camera that passes the filter has its
\* own handle under the identity list reports for it.
C28_DistinctIdentities ==
    ( \A i, j \in 1..Len(vmbcaminfos) :
          i # j => vmbcaminfos[i].idstr # vmbcaminfos[j].idstr )
    => /\ \A i, j \in 1..Len(camids) :
              i # j => ListOf(camids)[i] # ListOf(camids)[j]
       /\ pc = "poll"
             => \A i \in 1..Len(camids) :
                    ( camera_id = <<>> \/ camera_id = vmbcaminfos[i].idstr )
                    => /\ camids[i] \in DOMAIN imagecams
                       /\ imagecams[camids[i]].info = vmbcaminfos[i]

\* the verbs main knows
Verbs == {"quit", "status", "list", "start_capture", "stop_capture",
          "start_capture_all", "stop_capture_all", "get", "set"}

\* C29: a request whose verb is none of quit, status, list, start_capture,
\* stop_capture, start_capture_all, stop_capture_all, get and set is
\* answered with bad-parameter and no return values; it changes no camera,
\* makes no vendor or port call, and leaves the ceiling and the interrupt
\* flag as they are.
C29_UnknownVerbBadParameter ==
    [][ ( IsReply /\ reply' # <<>> /\ reply'[1].cmd_type \notin Verbs )
        => /\ reply'[1].retcode = VmbErrorBadParameter
           /\ reply'[1].retargs = <<>>
           /\ imagecams' = imagecams
           /\ vmb' = vmb
           /\ port0' = port0
           /\ calls' = <<>>
           /\ capture_timelim' = capture_timelim
           /\ zsys_interrupted' = zsys_interrupted
      ]_vars

\* a request with the verb reset that carried a return value and the code
\* of the ceiling has been answered with bad-parameter and no values
C29_Witness ==
    /\ Replied
    /\ LastReply.cmd_type = "reset"
    /\ LastReply.command = capture_maxlen
    /\ request # <<>>
    /\ request[1].retargs # <<>>
    /\ LastReply.retcode = VmbErrorBadParameter
    /\ LastReply.retargs = <<>>

\* C30: in every state, every camera is either idle (not capturing, start
\* timestamp unset) or capturing (capturing, start timestamp not
\* negative): the capturing flag holds exactly when the timestamp is set.
C30_CapturingIffTimestamp ==
    \A k \in DOMAIN imagecams :
        /\ imagecams[k].capturing <=> imagecams[k].capture_start_time >= 0
        /\ ~imagecams[k].capturing => imagecams[k].capture_start_time = -1

\* stop_capture has been answered for a camera that was capturing: it is
\* idle with no timestamp, while another camera is capturing with one
C30_Witness ==
    /\ Replied
    /\ LastReply.cmd_type = "stop_capture"
    /\ Found(LastReply.cam_id)
    /\ calls # <<>>
    /\ ~imagecams[CamHash(LastReply.cam_id)].capturing
    /\ imagecams[CamHash(LastReply.cam_id)].capture_start_time = -1
    /\ \E k \in DOMAIN imagecams :
           imagecams[k].capturing /\ imagecams[k].capture_start_time >= 0

\* C31: a start_capture, stop_capture or set request that resolves to a
\* registered camera changes the handle and the vendor state of that camera
\* only, and makes calls for that camera only; and the reply to a status
\* request for a registered camera reports the capturing flag the requests
\* before it left.
C31_OnlyAddressedCamera ==
    [][ ( IsReply /\ reply' # <<>> /\ Found(reply'[1].cam_id) )
        => /\ reply'[1].cmd_type \in {"start_capture", "stop_capture", "set"}
              => /\ \A j \in DOMAIN imagecams :
                        j # CamHash(reply'[1].cam_id)
                        => /\ imagecams'[j] = imagecams[j]
                           /\ vmb'[j] = vmb[j]
                 /\ \A i \in 1..Len(calls') :
                        calls'[i].cam = CamHash(reply'[1].cam_id)
           /\ ( /\ reply'[1].cmd_type = "status"
                /\ reply'[1].cam_id # <<>>
                /\ reply'[1].retcode = VmbErrorSuccess )
              => reply'[1].retargs[1] =
                     BoolString(imagecams[CamHash(reply'[1].cam_id)].capturing)
      ]_vars

\* with two cameras registered, the second request of a client, a status
\* request for the second camera of the registry, has been answered "True":
\* the start before it reached that camera and left the first one idle
C31_Witness ==
    /\ Replied
    /\ nrep = 2
    /\ Cardinality(DOMAIN imagecams) = 2
    /\ LastReply.cmd_type = "status"
    /\ LastReply.cam_id # <<>>
    /\ Found(LastReply.cam_id)
    /\ CamHash(LastReply.cam_id) = KeyOrder(DOMAIN imagecams)[2]
    /\ LastReply.retargs # <<>>
    /\ LastReply.retargs[1] = BoolString(TRUE)
    /\ imagecams[KeyOrder(DOMAIN imagecams)[2]].capturing
    /\ ~imagecams[KeyOrder(DOMAIN imagecams)[1]].capturing

\* C32: a status, list or get request, whatever its camera identifier and
\* command code, leaves every handle of the registry (capturing flag, start
\* timestamp, frame counter, bit index), the vendor's state, the port and
\* the ceiling as they are.
C32_ReadOnlyVerbs ==
    [][ ( /\ IsReply
          /\ reply' # <<>>
          /\ reply'[1].cmd_type \in {"status", "list", "get"} )
        => /\ imagecams' = imagecams
           /\ vmb' = vmb
           /\ port0' = port0
           /\ capture_timelim' = capture_timelim
      ]_vars

\* a get of adio_bit has been answered with the bit a set assigned before
\* it, and the handle still holds that bit
C32_Witness ==
    /\ Replied
    /\ nrep = 2
    /\ LastReply.cmd_type = "get"
    /\ LastReply.command = adio_bit
    /\ Found(LastReply.cam_id)
    /\ LastReply.retargs = << <<"1">> >>
    /\ imagecams[CamHash(LastReply.cam_id)].adio_bit = 1
    /\ capture_timelim = DefaultTimelim

\* C33: a get is answered with success only under an identifier that is
\* exactly the decimal string list reports for a camera of the registry (the
\* answer to every other identifier is VmbErrorNotFound).
C33_ExactIdentifier ==
    ( /\ Replied
      /\ LastReply.cmd_type = "get"
      /\ LastReply.command = adio_bit
      /\ LastReply.retcode = VmbErrorSuccess )
    => \E i \in 1..Len(camids) :
           /\ camids[i] \in DOMAIN imagecams
           /\ LastReply.cam_id = U32ToString(camids[i])

\* C34: when the only camera of the registry leaves Capturing with no frame
\* callback in flight, every bit of the port is low: the bits the camera
\* drove during the session, also those it held before a set of adio_bit
\* changed or unset its bit index, have been driven low.
C34_DrivenBitsLow ==
    [][ \A k \in DOMAIN imagecams :
            ( /\ DOMAIN imagecams = {k}
              /\ imagecams[k].capturing
              /\ ~imagecams'[k].capturing
              /\ cb[k].pc = "idle" )
            => \A b \in PortBits : port0'[b] = 0
      ]_vars

\* C35: the bit index of every camera is -1 or a bit position of the port,
\* whatever arguments the set requests of adio_bit carried.
C35_BitIndexInRange ==
    \A k \in DOMAIN imagecams : imagecams[k].adio_bit \in {-1} \cup PortBits

\* C36: a frame arrival at a capturing camera with a bit of the port
\* writes the high level when it is the first since the start of the
\* session, and the complement of the level written before it otherwise,
\* whatever requests came before the session.
C36_FirstHighThenAlternate ==
    [][ \A k \in DOMAIN imagecams :
            ( /\ nframes' = nframes + 1
              /\ imagecams'[k].frames = imagecams[k].frames + 1
              /\ adio_dev
              /\ imagecams[k].adio_bit \in PortBits )
            => port0'[imagecams[k].adio_bit] =
                   IF imagecams[k].frames = 0 THEN 1
                   ELSE IF imagecams[k].state = 0 THEN 1 ELSE 0
      ]_vars

\* C37: a stop_capture addressed to an idle camera of the registry is
\* answered with success, calls neither allied_stop_capture nor
\* WriteBit_aDIO, and leaves the handle (idle, frame counter, bit index), the
\* vendor's state and the port as they are; a stop_capture_all does the
\* same for every camera that is idle, and answers success when all are.
C37_StopIdleIsNoOp ==
    [][ ( IsReply /\ reply' # <<>> )
        => /\ ( /\ reply'[1].cmd_type = "stop_capture"
                /\ Found(reply'[1].cam_id)
                /\ ~imagecams[CamHash(reply'[1].cam_id)].capturing )
              => /\ reply'[1].retcode = VmbErrorSuccess
                 /\ calls' = <<>>
                 /\ imagecams' = imagecams
                 /\ vmb' = vmb
                 /\ port0' = port0
           /\ reply'[1].cmd_type = "stop_capture_all"
              => /\ \A k \in DOMAIN imagecams :
                        ~imagecams[k].capturing
                        => /\ imagecams'[k] = imagecams[k]
                           /\ vmb'[k] = vmb[k]
                           /\ \A i \in 1..Len(calls') : calls'[i].cam # k
                 /\ ( \A k \in DOMAIN imagecams : ~imagecams[k].capturing )
                        => /\ reply'[1].retcode = VmbErrorSuccess
                           /\ port0' = port0
      ]_vars

\* a stop_capture has been answered with success for a camera that holds
\* bit 1 and was never started: the camera is idle, its frame counter is 0,
\* no call was made and the port is low
C37_Witness ==
    /\ Replied
    /\ nrep = 2
    /\ adio_dev
    /\ LastReply.cmd_type = "stop_capture"
    /\ LastReply.retcode = VmbErrorSuccess
    /\ Found(LastReply.cam_id)
    /\ imagecams[CamHash(LastReply.cam_id)].adio_bit = 1
    /\ ~imagecams[CamHash(LastReply.cam_id)].capturing
    /\ imagecams[CamHash(LastReply.cam_id)].frames = 0
    /\ calls = <<>>
    /\ \A b \in PortBits : port0[b] = 0

====
